---- MODULE Spec2Model ----
(***************************************************************************)
(* A model of dynners: the DynamicIp change tracker (src/ip/mod.rs), the  *)
(* shared DynDNS v2 engine with its suspension state                      *)
(* (src/services/shared_dyndns.rs), the persistent state with its file    *)
(* format, byte by byte (src/persistence.rs), and the main loop that ties *)
(* them together (src/main.rs); further the FixedVec container            *)
(* (src/util.rs), the network matchers with their parsers                 *)
(* (src/ip/netmask.rs) and the update_record of the Cloudflare and Linode *)
(* providers (src/services/cloudflare.rs, linode.rs), each driven by a    *)
(* specification of its own.                                              *)
(*                                                                         *)
(* Option<T> is modelled as a sequence of length 0 (None) or 1 (Some).    *)
(* A u32 is a pair <<hi, lo>> of 16-bit halves where its width matters    *)
(* (the configuration hash).                                              *)
(***************************************************************************)
EXTENDS Integers, Sequences, FiniteSets, TLC

\* ------------------------------------------------------------------ bounds

\* Number of distinct addresses of each family a resolver can return.
MaxAddr == 2
\* Calls made on one engine instance by the engine test driver are counted
\* up to this cap after an outage response.
MaxSince == 32
\* The items pushed into a FixedVec by its driver are 1..MaxItem.
MaxItem == 5

\* --------------------------------------------------------------- constants

\* persistence.rs: const STATE_VERSION: u32 = 1
STATE_VERSION == 1
\* shared_dyndns.rs: (30 * 60) seconds of cooldown
COOLDOWN_SECS == 1800
\* util.rs / services/mod.rs: FixedVec<IpAddr, 2>
FIXEDVEC_N == 2
\* netmask.rs: the widths of an IPv4 and an IPv6 address in bits
W4 == 32
W6 == 128

None == <<>>
Some(x) == <<x>>
IsSome(o) == Len(o) = 1
Unwrap(o) == o[1]

V4 == 4
V6 == 6

\* std::net::IpAddr: a family tag and an address value.
IpAddr(v, a) == [v |-> v, a |-> a]
AddrsOf(v) == {IpAddr(v, a) : a \in 1..MaxAddr}
Addrs == AddrsOf(V4) \cup AddrsOf(V6)
is_ipv4(ip) == ip.v = V4
is_ipv6(ip) == ip.v = V6

Range(s) == {s[i] : i \in 1..Len(s)}

\* ------------------------------------------------- persistence.rs: hashing

\* The recursive operators below take their arguments through a
\* one-element set, which makes each argument a value before it is used.

\* Bitwise exclusive or of two naturals.
RECURSIVE Xor(_, _)
Xor(a, b) ==
    CHOOSE r \in {IF x = 0 THEN y
                  ELSE IF y = 0 THEN x
                  ELSE (((x % 2) + (y % 2)) % 2) + 2 * Xor(x \div 2, y \div 2) :
                  x \in {a}, y \in {b}} : TRUE

\* u32 values as <<high 16 bits, low 16 bits>>.
Xor32(x, y) == <<Xor(x[1], y[1]), Xor(x[2], y[2])>>
Shr1(x) == <<x[1] \div 2, (x[1] % 2) * 32768 + (x[2] \div 2)>>
\* The reflected CRC-32 polynomial 0xEDB88320 used by crc32fast.
CrcPoly == <<60856, 33568>>
AllOnes32 == <<65535, 65535>>

RECURSIVE CrcBits(_, _)
CrcBits(c, k) ==
    CHOOSE r \in {IF k = 0 THEN v
                  ELSE CrcBits(IF v[2] % 2 = 1 THEN Xor32(Shr1(v), CrcPoly) ELSE Shr1(v),
                               k - 1) :
                  v \in {c}} : TRUE

RECURSIVE CrcBytes(_, _, _)
CrcBytes(c, s, i) ==
    CHOOSE r \in {IF i > Len(s) THEN v
                  ELSE CrcBytes(CrcBits(Xor32(v, <<0, s[i]>>), 8), s, i + 1) :
                  v \in {c}} : TRUE

\* crc32fast::hash(s)
crc32(s) == Xor32(CrcBytes(AllOnes32, s, 1), AllOnes32)

\* hash2 *= 65539; hash2 += byte  (Wrapping<u32>); 65539 = 2^16 + 3
RollStep(h, byte) ==
    LET lo == (3 * h[2]) + byte
        hi == h[2] + (3 * h[1]) + (lo \div 65536)
    IN  <<hi % 65536, lo % 65536>>

RECURSIVE Roll(_, _, _)
Roll(h, s, i) ==
    CHOOSE r \in {IF i > Len(s) THEN v ELSE Roll(RollStep(v, s[i]), s, i + 1) :
                  v \in {h}} : TRUE

\* hash_bytes: ((hash1 as u64) << 32) | hash2, as <<hash1, hash2>>.
hash_bytes(s) ==
    LET hash1 == crc32(s)
        hash2 == Roll(hash1, s, 1)
    IN  <<hash1, hash2>>

\* ------------------------------------------------- persistence.rs: state

PersistentState(version, ts, hash, addrs) ==
    [version |-> version, update_timestamp |-> ts, config_hash |-> hash,
     ip_addresses |-> addrs]

\* HashMap::new()
EmptyMap == [n \in {} |-> IpAddr(V4, 1)]

\* PersistentState::new_with_config_hash; now = SystemTime::now() in seconds
new_with_config_hash(config_hash, now) ==
    PersistentState(STATE_VERSION, now, config_hash, EmptyMap)

\* PersistentState::new
PersistentState_new(config_text, now) ==
    new_with_config_hash(hash_bytes(config_text), now)

is_same_config_file(self, config_text) ==
    self.config_hash = hash_bytes(config_text)

\* Variant: the address map survives a change of the configuration.
validate_against_keeps_map(self, config_text, now) ==
    IF ~is_same_config_file(self, config_text)
    THEN [self |-> PersistentState(self.version, now, hash_bytes(config_text),
                                   self.ip_addresses),
          ret |-> FALSE]
    ELSE [self |-> self, ret |-> TRUE]
\* PersistentState::validate_against: the state afterwards and the result.
validate_against(self, config_text, now) ==
    IF ~is_same_config_file(self, config_text)
    THEN [self |-> PersistentState(self.version, now, hash_bytes(config_text), EmptyMap),
          ret |-> FALSE]
    ELSE [self |-> self, ret |-> TRUE]

\* ------------------------------------------- persistence.rs: file format

\* b"dynners\0"
MAGIC == <<100, 121, 110, 110, 101, 114, 115, 0>>

\* enum IpType
IpType_Ipv4 == 0
IpType_Ipv6 == 1

\* The names of the model with their UTF-8 bytes (str::as_bytes): the empty
\* name, three ASCII names and the three-byte encoding of U+4F60.
Names == {"", "a", "b", "zz", "U+4F60"}
as_bytes(name) ==
    CASE name = "" -> <<>>
      [] name = "a" -> <<97>>
      [] name = "b" -> <<98>>
      [] name = "zz" -> <<122, 122>>
      [] name = "U+4F60" -> <<228, 189, 160>>

\* UTF-8 validity of a sequence of one-, two- and three-byte characters.
IsCont(byte) == byte >= 128 /\ byte <= 191
RECURSIVE IsUtf8(_)
IsUtf8(b) ==
    IF b = <<>> THEN TRUE
    ELSE IF b[1] < 128 THEN IsUtf8(Tail(b))
    ELSE IF b[1] >= 194 /\ b[1] <= 223
         THEN Len(b) >= 2 /\ IsCont(b[2]) /\ IsUtf8(SubSeq(b, 3, Len(b)))
    ELSE IF b[1] >= 224 /\ b[1] <= 239
         THEN /\ Len(b) >= 3 /\ IsCont(b[2]) /\ IsCont(b[3])
              /\ (b[1] = 224 => b[2] >= 160)
              /\ (b[1] = 237 => b[2] <= 159)
              /\ IsUtf8(SubSeq(b, 4, Len(b)))
    ELSE FALSE

\* String::from_utf8: the name the bytes spell, None when they are not
\* UTF-8.
from_utf8(b) ==
    IF IsUtf8(b) THEN Some(CHOOSE n \in Names : as_bytes(n) = b) ELSE None

\* u32::to_le_bytes / from_le_bytes on <<hi, lo>> halves.
u32_to_le_bytes(x) == <<x[2] % 256, x[2] \div 256, x[1] % 256, x[1] \div 256>>
u32_from_le_bytes(b) == <<(b[4] * 256) + b[3], (b[2] * 256) + b[1]>>
\* A u32 that fits the integers of the model, and back.
u32_of(n) == <<n \div 65536, n % 65536>>
u32_value(x) == (x[1] * 65536) + x[2]
\* x > n for a u32 x and a small n
u32_gt(x, n) == x[1] > 0 \/ x[2] > n

\* u64::to_le_bytes / from_le_bytes of a timestamp below 2^31.
RECURSIVE le_bytes(_, _)
le_bytes(n, len) == IF len = 0 THEN <<>> ELSE <<n % 256>> \o le_bytes(n \div 256, len - 1)
RECURSIVE from_le(_)
from_le(b) == IF b = <<>> THEN 0 ELSE b[1] + (256 * from_le(Tail(b)))
u64_to_le_bytes(n) == le_bytes(n, 8)
u64_from_le_bytes(b) == from_le(b)

\* The configuration hash <<hash1, hash2>> is (hash1 << 32) | hash2.
hash_to_le_bytes(h) == u32_to_le_bytes(h[2]) \o u32_to_le_bytes(h[1])
hash_from_le_bytes(b) ==
    <<u32_from_le_bytes(SubSeq(b, 5, 8)), u32_from_le_bytes(SubSeq(b, 1, 4))>>

\* An address outside 10.0.0.0/24 and fd00::/120, by its bytes.
OtherAddr(v, raw) == [v |-> v, a |-> 0, raw |-> raw]
Zeros(n) == [i \in 1..n |-> 0]

\* u32::from(Ipv4Addr).to_le_bytes() of 10.0.0.a, and back.
ipv4_to_le_bytes(ip) == <<ip.a, 0, 0, 10>>
ipv4_from_le_bytes(b) ==
    IF SubSeq(b, 2, 4) = <<0, 0, 10>> THEN IpAddr(V4, b[1]) ELSE OtherAddr(V4, b)
\* u128::from(Ipv6Addr).to_le_bytes() of fd00::a, and back.
ipv6_to_le_bytes(ip) == <<ip.a>> \o Zeros(14) \o <<253>>
ipv6_from_le_bytes(b) ==
    IF SubSeq(b, 2, 16) = Zeros(14) \o <<253>> THEN IpAddr(V6, b[1]) ELSE OtherAddr(V6, b)

\* persistence.rs:193-206: one entry of the map.
write_entry(name, ip) ==
    u32_to_le_bytes(u32_of(Len(as_bytes(name)))) \o as_bytes(name)
    \o (IF is_ipv4(ip) THEN <<IpType_Ipv4>> \o ipv4_to_le_bytes(ip)
        ELSE <<IpType_Ipv6>> \o ipv6_to_le_bytes(ip))

RECURSIVE write_entries(_, _)
write_entries(map, order) ==
    IF order = <<>> THEN <<>>
    ELSE write_entry(Head(order), map[Head(order)]) \o write_entries(map, Tail(order))

\* The bytes written by lines 187-190.
write_header(self) ==
    MAGIC \o u32_to_le_bytes(u32_of(self.version))
    \o u64_to_le_bytes(self.update_timestamp) \o hash_to_le_bytes(self.config_hash)

\* Variant: the entries are followed by a zero name length.
write_to_terminated(self, order) ==
    write_header(self) \o write_entries(self.ip_addresses, order) \o <<0, 0, 0, 0>>
\* PersistentState::write_to on a writer that accepts every byte; order is
\* the order in which the HashMap yields its entries.
write_to(self, order) ==
    write_header(self) \o write_entries(self.ip_addresses, order)

\* The orders a HashMap over the names D can be iterated in.
Orders(D) ==
    {o \in [1..Cardinality(D) -> D] : \A i, j \in 1..Cardinality(D) : o[i] = o[j] => i = j}

\* The closure read_field of from_reader: the next len bytes from position
\* pos, or an error when the stream ends before.
read_field(bytes, pos, len) ==
    IF pos + len - 1 <= Len(bytes)
    THEN [ok |-> TRUE, data |-> SubSeq(bytes, pos, pos + len - 1), next |-> pos + len]
    ELSE [ok |-> FALSE, data |-> <<>>, next |-> Len(bytes) + 1]

ReadOk(state) == [ok |-> TRUE, state |-> state, err |-> "none"]
ReadErr(kind) ==
    [ok |-> FALSE, state |-> PersistentState(0, 0, <<>>, EmptyMap), err |-> kind]

\* HashMap::insert
insert(map, name, ip) ==
    [n \in DOMAIN map \cup {name} |-> IF n = name THEN ip ELSE map[n]]

\* Variant: a first byte of 100 is taken for the magic.
magic_matches_first_byte(magic) == magic[1] = MAGIC[1]
\* persistence.rs:120
magic_matches(magic) == magic = MAGIC

\* Variant: only the lowest byte of the version is compared.
version_too_new_low_byte(version) == version[2] % 256 > STATE_VERSION
\* persistence.rs:131
version_too_new(version) == u32_gt(version, STATE_VERSION)

\* persistence.rs:143-174: the entries from position pos on; the map read
\* so far, or the error that ends from_reader.
RECURSIVE read_entries(_, _, _)
read_entries(bytes, pos, map) ==
    LET name_len == read_field(bytes, pos, 4)
    IN  IF ~name_len.ok THEN [ok |-> TRUE, map |-> map, err |-> "none"]
        ELSE IF u32_value(u32_from_le_bytes(name_len.data)) = 0
        THEN [ok |-> TRUE, map |-> map, err |-> "none"]
        ELSE
        LET name_raw == read_field(bytes, name_len.next,
                                   u32_value(u32_from_le_bytes(name_len.data)))
        IN  IF ~name_raw.ok
            THEN [ok |-> FALSE, map |-> map, err |-> "UnexpectedEof"]
            ELSE IF from_utf8(name_raw.data) = None
            THEN [ok |-> FALSE, map |-> map, err |-> "InvalidInput"]
            ELSE
            LET ip_type == read_field(bytes, name_raw.next, 1)
            IN  IF ~ip_type.ok
                THEN [ok |-> FALSE, map |-> map, err |-> "UnexpectedEof"]
                ELSE IF ip_type.data[1] \notin {IpType_Ipv4, IpType_Ipv6}
                THEN [ok |-> FALSE, map |-> map, err |-> "InvalidInput"]
                ELSE
                LET ip_raw == read_field(bytes, ip_type.next,
                                         IF ip_type.data[1] = IpType_Ipv4 THEN 4 ELSE 16)
                    ip == IF ip_type.data[1] = IpType_Ipv4
                          THEN ipv4_from_le_bytes(ip_raw.data)
                          ELSE ipv6_from_le_bytes(ip_raw.data)
                IN  IF ~ip_raw.ok
                    THEN [ok |-> FALSE, map |-> map, err |-> "UnexpectedEof"]
                    ELSE read_entries(bytes, ip_raw.next,
                                      insert(map, Unwrap(from_utf8(name_raw.data)), ip))

\* PersistentState::from_reader on a reader that yields bytes and then ends.
from_reader(bytes) ==
    LET magic == read_field(bytes, 1, 8)
        version == read_field(bytes, magic.next, 4)
        update_timestamp == read_field(bytes, version.next, 8)
        config_hash == read_field(bytes, update_timestamp.next, 8)
        entries == read_entries(bytes, config_hash.next, EmptyMap)
    IN  IF ~magic.ok THEN ReadErr("UnexpectedEof")
        ELSE IF ~magic_matches(magic.data) THEN ReadErr("InvalidInput")
        ELSE IF ~version.ok THEN ReadErr("UnexpectedEof")
        ELSE IF version_too_new(u32_from_le_bytes(version.data)) THEN ReadErr("Unsupported")
        ELSE IF ~update_timestamp.ok THEN ReadErr("UnexpectedEof")
        ELSE IF ~config_hash.ok THEN ReadErr("UnexpectedEof")
        ELSE IF ~entries.ok THEN ReadErr(entries.err)
        ELSE ReadOk(PersistentState(u32_value(u32_from_le_bytes(version.data)),
                                    u64_from_le_bytes(update_timestamp.data),
                                    hash_from_le_bytes(config_hash.data),
                                    entries.map))

\* ---------------------------------------------------- ip/mod.rs: DynamicIp

DynamicIp(address, dirty) == [address |-> address, dirty |-> dirty]

\* Variant: a DynamicIp constructed dirty.
DynamicIp_from_config_dirty == [address |-> None, dirty |-> TRUE]
\* DynamicIp::from_config: no address, not dirty.
DynamicIp_from_config == [address |-> None, dirty |-> FALSE]

address(self) == self.address
is_dirty(self) == self.dirty

\* The outcome of the address source (exec, interface or http) of one IP.
ResolveOk(ip) == [ok |-> TRUE, ip |-> Some(ip)]
ResolveErr == [ok |-> FALSE, ip |-> None]
Resolutions(v) == {ResolveErr} \cup {ResolveOk(ip) : ip \in AddrsOf(v)}

\* The DynamicIpError variant update() maps a failure of each method to.
ErrorOf(method) ==
    CASE method = "exec" -> "ExecutionFailure"
      [] method = "interface" -> "InterfaceFailure"
      [] method = "http" -> "HttpFailure"

\* Variant: every success marks the IP dirty.
update_always_dirty(self, method, r) ==
    IF ~r.ok
    THEN [self |-> self, ret |-> ErrorOf(method)]
    ELSE [self |-> DynamicIp(r.ip, TRUE), ret |-> "Ok"]

\* Variant: a failure clears the cached address and the dirty bit.
update_clobber_on_error(self, method, r) ==
    IF ~r.ok
    THEN [self |-> DynamicIp(None, FALSE), ret |-> ErrorOf(method)]
    ELSE [self |-> DynamicIp(r.ip, IF IsSome(self.address)
                                     THEN Unwrap(self.address) # Unwrap(r.ip)
                                     ELSE TRUE),
          ret |-> "Ok"]

\* Variant: a failed resolution marks the IP dirty.
update_dirty_on_error(self, method, r) ==
    IF ~r.ok
    THEN [self |-> DynamicIp(self.address, TRUE), ret |-> ErrorOf(method)]
    ELSE [self |-> DynamicIp(r.ip, IF IsSome(self.address)
                                     THEN Unwrap(self.address) # Unwrap(r.ip)
                                     ELSE TRUE),
          ret |-> "Ok"]

\* DynamicIp::update with the source's outcome r: the `?` returns the error
\* before anything is assigned; on success dirty is set by comparison with
\* the old address (true when there is none) and the address is replaced.
update(self, method, r) ==
    IF ~r.ok
    THEN [self |-> self, ret |-> ErrorOf(method)]
    ELSE [self |-> DynamicIp(r.ip, IF IsSome(self.address)
                                     THEN Unwrap(self.address) # Unwrap(r.ip)
                                     ELSE TRUE),
          ret |-> "Ok"]

\* DynamicIp::update_from_cache (called by main, its body is not part of
\* the sources at hand): primes the cached address, leaves dirty alone.
update_from_cache(self, ip) == DynamicIp(Some(ip), self.dirty)

\* ------------------------------------------------------------ text helpers

\* Strings the code inspects are sequences of one-character strings.
StartsWith(s, prefix) ==
    Len(s) >= Len(prefix) /\ SubSeq(s, 1, Len(prefix)) = prefix

\* str::strip_prefix: the rest after the prefix, or None.
strip_prefix(s, prefix) ==
    IF StartsWith(s, prefix) THEN Some(SubSeq(s, Len(prefix) + 1, Len(s))) ELSE None

IsSpace(c) == c \in {" ", "\n", "\r", "\t"}

RECURSIVE trim_start(_)
trim_start(s) ==
    IF Len(s) > 0 /\ IsSpace(s[1]) THEN trim_start(Tail(s)) ELSE s

RECURSIVE trim_end(_)
trim_end(s) ==
    IF Len(s) > 0 /\ IsSpace(s[Len(s)]) THEN trim_end(SubSeq(s, 1, Len(s) - 1)) ELSE s

trim(s) == trim_end(trim_start(s))

\* str::split(sep): the fields between separators, at least one field.
RECURSIVE SplitFrom(_, _, _, _)
SplitFrom(s, sep, i, cur) ==
    IF i > Len(s) THEN <<cur>>
    ELSE IF s[i] = sep THEN <<cur>> \o SplitFrom(s, sep, i + 1, <<>>)
    ELSE SplitFrom(s, sep, i + 1, Append(cur, s[i]))

split(s, sep) == SplitFrom(s, sep, 1, <<>>)

Digits == <<"0", "1", "2", "3", "4", "5", "6", "7", "8", "9">>
Digit(n) == Digits[n + 1]

\* IpAddr::to_string: the addresses of the model are 10.0.0.a and fd00::a.
to_string(ip) ==
    IF is_ipv4(ip)
    THEN <<"1", "0", ".", "0", ".", "0", ".", Digit(ip.a)>>
    ELSE <<"f", "d", "0", "0", ":", ":", Digit(ip.a)>>

\* str::parse::<IpAddr>().ok() over the addresses of the model.
parse_IpAddr(t) ==
    IF \E ip \in Addrs : to_string(ip) = t
    THEN Some(CHOOSE ip \in Addrs : to_string(ip) = t)
    ELSE None

\* Iterator::find with is_ipv4 / is_ipv6: the first address of the family.
\* Variant: the last address of the family is taken.
RECURSIVE find_family_last(_, _)
find_family_last(s, v) ==
    IF s = <<>> THEN None
    ELSE IF Head(s).v = v /\ find_family_last(Tail(s), v) = None THEN Some(Head(s))
    ELSE find_family_last(Tail(s), v)
RECURSIVE find_family(_, _)
find_family(s, v) ==
    IF s = <<>> THEN None
    ELSE IF Head(s).v = v THEN Some(Head(s))
    ELSE find_family(Tail(s), v)

find_ipv4(s) == find_family(s, V4)
find_ipv6(s) == find_family(s, V6)

\* ----------------------------------------------------- util.rs: FixedVec

\* FixedVec::push: appends while length < N, otherwise drops the item.
push(vec, item) == IF Len(vec) < FIXEDVEC_N THEN Append(vec, item) ELSE vec

push_opt(vec, o) == IF IsSome(o) THEN push(vec, Unwrap(o)) ELSE vec

\* FixedVec { length, array }: a slot of the array is None while it is
\* MaybeUninit::uninit().
FixedVec_new == [length |-> 0, array |-> [i \in 1..FIXEDVEC_N |-> None]]

\* Variant: a full vector replaces its last item.
FixedVec_push_overwrite(self, item) ==
    IF self.length < FIXEDVEC_N
    THEN [self |-> [length |-> self.length + 1,
                    array |-> [self.array EXCEPT ![self.length + 1] = Some(item)]],
          ret |-> None]
    ELSE [self |-> [self EXCEPT !.array[self.length] = Some(item)], ret |-> None]

\* FixedVec::push: the vector afterwards and the value returned.
FixedVec_push(self, item) ==
    IF self.length < FIXEDVEC_N
    THEN [self |-> [length |-> self.length + 1,
                    array |-> [self.array EXCEPT ![self.length + 1] = Some(item)]],
          ret |-> None]
    ELSE [self |-> self, ret |-> Some(item)]

\* FixedVec::as_slice: the first length slots, read as initialised.
FixedVec_as_slice(self) == [i \in 1..self.length |-> Unwrap(self.array[i])]

\* FixedVec::get: as_slice().get(index as usize), indices counted from 0.
FixedVec_get(self, index) ==
    IF index < Len(FixedVec_as_slice(self)) THEN Some(FixedVec_as_slice(self)[index + 1])
    ELSE None
\* ------------------------------------------------------- ip/netmask.rs

\* An Ipv4Addr is its 4 octets and an Ipv6Addr its 16 octets, in network
\* order; a u32 or u128 is its bits, the most significant first.
OctetBits(o) == [i \in 1..8 |-> (o \div (2 ^ (8 - i))) % 2]
BitsOctet(b) ==
    b[1] * 128 + b[2] * 64 + b[3] * 32 + b[4] * 16 + b[5] * 8 + b[6] * 4 + b[7] * 2 + b[8]

\* uN::from_be_bytes
from_be_bytes(octets) ==
    [i \in 1..(8 * Len(octets)) |-> OctetBits(octets[((i - 1) \div 8) + 1])[((i - 1) % 8) + 1]]
\* uN::to_be_bytes, which is Ipv4Addr::from(u32) and Ipv6Addr::from(u128)
to_be_bytes(bits) ==
    [k \in 1..(Len(bits) \div 8) |-> BitsOctet(SubSeq(bits, 8 * k - 7, 8 * k))]
ReverseSeq(s) == [i \in 1..Len(s) |-> s[Len(s) + 1 - i]]
\* The byte orders a build can have.
Endians == {"little", "big"}
\* uN::from_ne_bytes: the byte order is that of the target.
from_ne_bytes(octets, endian) ==
    IF endian = "big" THEN from_be_bytes(octets) ELSE from_be_bytes(ReverseSeq(octets))

\* fn v4_to_u32 and fn v6_to_u128
v4_to_u32(ipv4, endian) == from_ne_bytes(ipv4, endian)
v6_to_u128(ipv6, endian) == from_ne_bytes(ipv6, endian)

\* !0, >>, << and & on a word of Len(x) bits; the guards of from_prefix keep
\* the shift amounts below the width.
AllOnes(w) == [i \in 1..w |-> 1]
AllZero(w) == [i \in 1..w |-> 0]
shr(x, n) == [i \in 1..Len(x) |-> IF i <= n THEN 0 ELSE x[i - n]]
shl(x, n) == [i \in 1..Len(x) |-> IF i + n <= Len(x) THEN x[i + n] ELSE 0]
bitand(x, y) == [i \in 1..Len(x) |-> x[i] * y[i]]

\* Variant: the mask has its low bits set.
prefix_mask_low(w, prefix) ==
    LET bits == w - prefix
    IN  IF bits < w THEN shr(AllOnes(w), bits) ELSE AllZero(w)

\* let bits = (W - prefix) as u32;
\* let mask = if bits < W { !0 >> bits << bits } else { 0 };
prefix_mask(w, prefix) ==
    LET bits == w - prefix
    IN  IF bits < w THEN shl(shr(AllOnes(w), bits), bits) ELSE AllZero(w)

Network(addr, netmask) == [address |-> addr, mask |-> netmask]

\* NetworkV4::from_prefix, for prefix <= 32 as from_str calls it
NetworkV4_from_prefix(addr, prefix) == Network(addr, to_be_bytes(prefix_mask(W4, prefix)))
\* NetworkV6::from_prefix, for prefix <= 128 as from_str calls it
NetworkV6_from_prefix(addr, prefix) == Network(addr, to_be_bytes(prefix_mask(W6, prefix)))
\* NetworkV4::from_mask and NetworkV6::from_mask
from_mask(addr, mask) == Network(addr, mask)

\* The conversion in_range applies to an address of either family.
to_word(addr, endian) ==
    IF Len(addr) = 4 THEN v4_to_u32(addr, endian) ELSE v6_to_u128(addr, endian)

\* Variant: only the candidate is masked.
in_range_masks_candidate(self, addr, endian) ==
    to_word(self.address, endian)
        = bitand(to_word(addr, endian), to_word(self.mask, endian))

\* NetworkV4::in_range and NetworkV6::in_range
in_range(self, addr, endian) ==
    bitand(to_word(self.address, endian), to_word(self.mask, endian))
        = bitand(to_word(addr, endian), to_word(self.mask, endian))

\* str::find('/'): the position of the first one, 0 for None.
find_char(s, c) ==
    IF \E i \in 1..Len(s) : s[i] = c
    THEN CHOOSE i \in 1..Len(s) : s[i] = c /\ \A j \in 1..(i - 1) : s[j] # c
    ELSE 0

HexLower == <<"0", "1", "2", "3", "4", "5", "6", "7", "8", "9", "a", "b", "c", "d", "e", "f">>
HexUpper == <<"0", "1", "2", "3", "4", "5", "6", "7", "8", "9", "A", "B", "C", "D", "E", "F">>
\* char::to_digit(radix): None is -1.
to_digit(c, radix) ==
    IF \E i \in 1..radix : HexLower[i] = c \/ HexUpper[i] = c
    THEN (CHOOSE i \in 1..radix : HexLower[i] = c \/ HexUpper[i] = c) - 1
    ELSE -1

\* The digits of s in the radix, accumulated with the overflow check of the
\* target type: None on a character that is no digit or a value above max.
RECURSIVE read_digits(_, _, _, _)
read_digits(s, radix, acc, max) ==
    IF s = <<>> THEN Some(acc)
    ELSE IF to_digit(Head(s), radix) < 0 THEN None
    ELSE IF acc * radix + to_digit(Head(s), radix) > max THEN None
    ELSE read_digits(Tail(s), radix, acc * radix + to_digit(Head(s), radix), max)

U8_MAX == 255
U16_MAX == 65535

\* str::parse::<u8>(): an optional '+', then one or more decimal digits whose
\* value fits a u8.
parse_u8(s) ==
    LET digits == IF Len(s) > 0 /\ s[1] = "+" THEN Tail(s) ELSE s
    IN  IF digits = <<>> THEN None ELSE read_digits(digits, 10, 0, U8_MAX)

\* One field of a dotted quad: one to three digits, no leading zero.
read_octet(f) ==
    IF Len(f) = 0 \/ Len(f) > 3 \/ (Len(f) > 1 /\ f[1] = "0") THEN None
    ELSE read_digits(f, 10, 0, U8_MAX)

\* str::parse::<Ipv4Addr>(): four octets separated by dots.
parse_Ipv4Addr(s) ==
    LET fields == split(s, ".")
    IN  IF Len(fields) = 4 /\ \A i \in 1..4 : IsSome(read_octet(fields[i]))
        THEN Some([i \in 1..4 |-> Unwrap(read_octet(fields[i]))])
        ELSE None

\* One group of an IPv6 address: one to four hexadecimal digits.
read_group(f) ==
    IF Len(f) = 0 \/ Len(f) > 4 THEN None ELSE read_digits(f, 16, 0, U16_MAX)

\* The groups of a part of an IPv6 address without "::"; the empty part has
\* no groups.
read_groups(part) ==
    LET fields == IF part = <<>> THEN <<>> ELSE split(part, ":")
    IN  IF \A i \in 1..Len(fields) : IsSome(read_group(fields[i]))
        THEN Some([i \in 1..Len(fields) |-> Unwrap(read_group(fields[i]))])
        ELSE None

\* The position of the first "::", 0 when there is none.
find_gap(s) ==
    IF \E i \in 1..(Len(s) - 1) : s[i] = ":" /\ s[i + 1] = ":"
    THEN CHOOSE i \in 1..(Len(s) - 1) :
            /\ s[i] = ":" /\ s[i + 1] = ":"
            /\ \A j \in 1..(i - 1) : ~(s[j] = ":" /\ s[j + 1] = ":")
    ELSE 0

GroupOctets(groups) ==
    [i \in 1..(2 * Len(groups)) |->
        IF i % 2 = 1 THEN groups[(i + 1) \div 2] \div 256 ELSE groups[i \div 2] % 256]

\* str::parse::<Ipv6Addr>(): eight groups separated by colons, or at most
\* seven around one "::" that stands for the missing zero groups.  The form
\* with an embedded dotted quad is not among the inputs of the model.
parse_Ipv6Addr(s) ==
    LET gap == find_gap(s)
        head == read_groups(IF gap = 0 THEN s ELSE SubSeq(s, 1, gap - 1))
        tail == IF gap = 0 THEN Some(<<>>) ELSE read_groups(SubSeq(s, gap + 2, Len(s)))
    IN  IF head = None \/ tail = None THEN None
        ELSE LET h == Unwrap(head)
                 t == Unwrap(tail)
             IN  IF gap = 0
                 THEN IF Len(h) = 8 THEN Some(GroupOctets(h)) ELSE None
                 ELSE IF Len(h) + Len(t) <= 7
                 THEN Some(GroupOctets(h \o [i \in 1..(8 - Len(h) - Len(t)) |-> 0] \o t))
                 ELSE None

\* Result<NetworkVx, NetworkParseErr>
NetOk(value) == [ok |-> TRUE, value |-> value, err |-> ""]
NetErr(err) == [ok |-> FALSE, value |-> Network(<<>>, <<>>), err |-> err]

\* <NetworkV4 as FromStr>::from_str
NetworkV4_from_str(s) ==
    LET slash == find_char(s, "/")
        addr == parse_Ipv4Addr(SubSeq(s, 1, slash - 1))
        mask == SubSeq(s, slash + 1, Len(s))
    IN  IF slash = 0 THEN NetErr("MaskUnspecified")
        ELSE IF addr = None THEN NetErr("InvalidAddress")
        ELSE IF IsSome(parse_u8(mask))
        THEN IF Unwrap(parse_u8(mask)) <= W4
             THEN NetOk(NetworkV4_from_prefix(Unwrap(addr), Unwrap(parse_u8(mask))))
             ELSE NetErr("MaskTooLarge")
        ELSE IF IsSome(parse_Ipv4Addr(mask))
        THEN NetOk(from_mask(Unwrap(addr), Unwrap(parse_Ipv4Addr(mask))))
        ELSE NetErr("InvalidMask")

\* <NetworkV6 as FromStr>::from_str
NetworkV6_from_str(s) ==
    LET slash == find_char(s, "/")
        addr == parse_Ipv6Addr(SubSeq(s, 1, slash - 1))
        mask == SubSeq(s, slash + 1, Len(s))
    IN  IF slash = 0 THEN NetErr("MaskUnspecified")
        ELSE IF addr = None THEN NetErr("InvalidAddress")
        ELSE IF IsSome(parse_u8(mask))
        THEN IF Unwrap(parse_u8(mask)) <= W6
             THEN NetOk(NetworkV6_from_prefix(Unwrap(addr), Unwrap(parse_u8(mask))))
             ELSE NetErr("MaskTooLarge")
        ELSE IF IsSome(parse_Ipv6Addr(mask))
        THEN NetOk(from_mask(Unwrap(addr), Unwrap(parse_Ipv6Addr(mask))))
        ELSE NetErr("InvalidMask")
\* ------------------------------------- services/mod.rs, shared_dyndns.rs

\* enum Suspension
Cycles(n) == [tag |-> "Cycles", n |-> n]
Indefinite == [tag |-> "Indefinite", n |-> 0]

\* Result<FixedVec<IpAddr, 2>, DdnsUpdateError>; a panic is the third outcome.
RetOk(updated) == [tag |-> "Ok", updated |-> updated, suspended |-> Cycles(0)]
RetErr(variant) == [tag |-> variant, updated |-> <<>>, suspended |-> Cycles(0)]
RetSuspended(susp) == [tag |-> "Suspended", updated |-> <<>>, suspended |-> susp]
RetPanic == [tag |-> "panic", updated |-> <<>>, suspended |-> Cycles(0)]

\* What one update_record call did: the instance afterwards, the value
\* returned, and the myip parameter of the request it issued (None when no
\* request was issued).
Outcome(self, ret, request) == [self |-> self, ret |-> ret, request |-> request]

\* The answer of request.call(): Ok(resp), Err(Error::Status(_, resp)) or
\* Err(Error::Transport(_)); body is None when into_string() fails.
Response(kind, body) == [kind |-> kind, body |-> body]

S_good == <<"g", "o", "o", "d">>
S_nochg == <<"n", "o", "c", "h", "g">>
S_911 == <<"9", "1", "1">>
S_dnserr == <<"d", "n", "s", "e", "r", "r">>
S_badauth == <<"b", "a", "d", "a", "u", "t", "h">>

\* shared_dyndns::Service::from_config
shared_dyndns_from_config == [kind |-> "dyndns", suspended |-> Cycles(0)]

\* Variant: the cycle of the outage answer counts as the first of the wait.
cooldown_cycles_less_one(update_rate) ==
    IF IsSome(update_rate) /\ COOLDOWN_SECS \div Unwrap(update_rate) > 0
    THEN (COOLDOWN_SECS \div Unwrap(update_rate)) - 1 ELSE 0

\* Variant: the cooldown rounded up by one cycle.
cooldown_cycles_plus_one(update_rate) ==
    IF IsSome(update_rate) THEN (COOLDOWN_SECS \div Unwrap(update_rate)) + 1 ELSE 0

\* let cycles = match update_rate { Some(rate) => (30 * 60) / rate, None => 0 }
cooldown_cycles(update_rate) ==
    IF IsSome(update_rate) THEN COOLDOWN_SECS \div Unwrap(update_rate) ELSE 0

\* Variant: the submitted addresses are returned whatever the body confirms.
good_result_submitted(rest, ipv4, ipv6) == push_opt(push_opt(<<>>, ipv4), ipv6)

\* The "good" branch: the first two comma separated fields parsed as
\* addresses, or the submitted addresses when neither parses.
good_result(rest, ipv4, ipv6) ==
    LET fields == split(rest, ",")
        p1 == parse_IpAddr(trim(fields[1]))
        p2 == IF Len(fields) >= 2 THEN parse_IpAddr(trim(fields[2])) ELSE None
        ip1 == IF p1 = None /\ p2 = None THEN ipv4 ELSE p1
        ip2 == IF p1 = None /\ p2 = None THEN ipv6 ELSE p2
    IN  push_opt(push_opt(<<>>, ip1), ip2)

\* The suspension the response body leaves the instance with.
classify(self, body, update_rate) ==
    IF IsSome(strip_prefix(body, S_good)) \/ StartsWith(body, S_nochg)
    THEN self
    ELSE IF StartsWith(body, S_911) \/ StartsWith(body, S_dnserr)
    THEN [self EXCEPT !.suspended = Cycles(cooldown_cycles(update_rate))]
    ELSE [self EXCEPT !.suspended = Indefinite]

\* Variant: an answer with an error status is an error that leaves the
\* instance as it was.
handle_response_status_fails(self, resp, ipv4, ipv6, update_rate) ==
    IF resp.kind = "Transport" THEN [self |-> self, ret |-> RetErr("TransportError")]
    ELSE IF resp.kind = "Status" \/ resp.body = None
    THEN [self |-> self, ret |-> RetErr("DynDns")]
    ELSE LET body == Unwrap(resp.body)
             good == strip_prefix(body, S_good)
         IN  [self |-> classify(self, body, update_rate),
              ret |-> IF IsSome(good) THEN RetOk(good_result(Unwrap(good), ipv4, ipv6))
                      ELSE IF StartsWith(body, S_nochg) THEN RetOk(<<>>)
                      ELSE RetErr("DynDns")]

\* The match on the answer of request.call() (lines 81-160).
handle_response(self, resp, ipv4, ipv6, update_rate) ==
    IF resp.kind = "Transport" THEN [self |-> self, ret |-> RetErr("TransportError")]
    ELSE IF resp.body = None THEN [self |-> self, ret |-> RetErr("DynDns")]
    ELSE LET body == Unwrap(resp.body)
             good == strip_prefix(body, S_good)
         IN  [self |-> classify(self, body, update_rate),
              ret |-> IF IsSome(good) THEN RetOk(good_result(Unwrap(good), ipv4, ipv6))
                      ELSE IF StartsWith(body, S_nochg) THEN RetOk(<<>>)
                      ELSE RetErr("DynDns")]

\* The myip query parameter: the first IPv4 and the first IPv6 of the input.
myip(ipv4, ipv6) == ipv4 \o ipv6

\* Variant: an indefinite suspension that is lifted by the next call.
gate_indefinite_expires(self) ==
    IF self.suspended.tag = "Cycles" /\ self.suspended.n > 0
    THEN LET s == [self EXCEPT !.suspended = Cycles(self.suspended.n - 1)]
         IN  Some(Outcome(s, RetSuspended(s.suspended), None))
    ELSE IF self.suspended.tag = "Indefinite"
    THEN LET s == [self EXCEPT !.suspended = Cycles(0)]
         IN  Some(Outcome(s, RetSuspended(self.suspended), None))
    ELSE None

\* The match on self.suspended at the head of update_record (lines 50-59):
\* Some(outcome) when the call returns there, None when it goes on.
gate(self) ==
    IF self.suspended.tag = "Cycles" /\ self.suspended.n > 0
    THEN LET s == [self EXCEPT !.suspended = Cycles(self.suspended.n - 1)]
         IN  Some(Outcome(s, RetSuspended(s.suspended), None))
    ELSE IF self.suspended.tag = "Indefinite"
    THEN Some(Outcome(self, RetSuspended(self.suspended), None))
    ELSE None

\* shared_dyndns::Service::update_record(ips) when the server answers resp.
shared_update_record(self, ips, resp, update_rate) ==
    LET g == gate(self)
        ipv4 == find_ipv4(ips)
        ipv6 == find_ipv6(ips)
    IN  IF IsSome(g) THEN Unwrap(g)
        ELSE IF ipv4 = None /\ ipv6 = None THEN Outcome(self, RetPanic, None)
        ELSE LET h == handle_response(self, resp, ipv4, ipv6, update_rate)
             IN  Outcome(h.self, h.ret, Some(myip(ipv4, ipv6)))

\* dummy::Service::from_config
dummy_from_config == [kind |-> "dummy", suspended |-> Cycles(0)]

\* dummy::Service::update_record: echoes the first address of each family.
dummy_update_record(self, ips) ==
    Outcome(self, RetOk(push_opt(push_opt(<<>>, find_ipv4(ips)), find_ipv6(ips))), None)

\* DdnsConfigService::into_boxed
to_boxed(kind) == IF kind = "dyndns" THEN shared_dyndns_from_config ELSE dummy_from_config

\* Dynamic dispatch of DdnsService::update_record.
update_record(self, ips, resp, update_rate) ==
    IF self.kind = "dyndns" THEN shared_update_record(self, ips, resp, update_rate)
    ELSE dummy_update_record(self, ips)

\* ------------------------------------ services/cloudflare.rs, linode.rs

\* struct Record: the zone (Cloudflare) or domain (Linode) it belongs to, its
\* id, its name and its kind.
Record(zone, id, name, kind) == [zone |-> zone, id |-> id, domain |-> name, kind |-> kind]
RecordKind_A == "A"
RecordKind_Aaaa == "AAAA"

\* Service { config, cached_records } of cloudflare.rs and of linode.rs; the
\* two update_record functions differ in the names of the calls only.
rest_from_config(provider, domains) ==
    [kind |-> provider, domains |-> domains, cached_records |-> <<>>]

\* The answers of the API during one update_record call: what get_zones()
\* (get_domains()) returns, what get_records(zone) returns for each zone,
\* and the records whose put_record fails.
Api(zones, records, put_fails) == [zones |-> zones, records |-> records, put_fails |-> put_fails]
ApiOk(list) == [ok |-> TRUE, list |-> list, err |-> ""]
ApiErr(err) == [ok |-> FALSE, list |-> <<>>, err |-> err]

\* The requests of a call: the zone list, a record list, a PUT.
ReqZones == [req |-> "zones", zone |-> 0, id |-> 0, ip |-> None]
ReqRecords(zone) == [req |-> "records", zone |-> zone, id |-> 0, ip |-> None]
ReqPut(record, ip) == [req |-> "put", zone |-> record.zone, id |-> record.id, ip |-> Some(ip)]

\* if self.config.domains.iter().any(|d| *d == record.domain) { push }
RECURSIVE push_matching(_, _, _)
push_matching(cache, domains, records) ==
    IF records = <<>> THEN cache
    ELSE push_matching(IF Head(records).domain \in domains THEN Append(cache, Head(records))
                       ELSE cache,
                       domains, Tail(records))

\* for zone in zones { for record in self.get_records(zone)? { ... } }:
\* the cache, the requests issued and the error that ended the loop, if any.
RECURSIVE discover_zones(_, _, _, _, _)
discover_zones(zones, api, domains, cache, reqs) ==
    IF zones = <<>> THEN [cache |-> cache, reqs |-> reqs, err |-> ""]
    ELSE LET answer == api.records[Head(zones)]
             asked == Append(reqs, ReqRecords(Head(zones)))
         IN  IF ~answer.ok THEN [cache |-> cache, reqs |-> asked, err |-> answer.err]
             ELSE discover_zones(Tail(zones), api, domains,
                                 push_matching(cache, domains, answer.list), asked)

\* Variant: the records are listed in every call.
needs_discovery_always(self) == TRUE

\* if self.cached_records.is_empty()
needs_discovery(self) == self.cached_records = <<>>

\* Variant: a call that finds records cached lists again, and a listing
\* that succeeds replaces the cache.
discover_relists(self, api) ==
    IF ~api.zones.ok
    THEN [cache |-> self.cached_records, reqs |-> <<ReqZones>>, err |-> api.zones.err]
    ELSE LET d == discover_zones(api.zones.list, api, self.domains, <<>>, <<ReqZones>>)
         IN  IF d.err = "" \/ self.cached_records = <<>> THEN d
             ELSE [cache |-> self.cached_records, reqs |-> d.reqs, err |-> d.err]
\* Lines 248-256 (269-277): the discovery of a call.
discover(self, api) ==
    IF ~needs_discovery(self)
    THEN [cache |-> self.cached_records, reqs |-> <<>>, err |-> ""]
    ELSE IF ~api.zones.ok
    THEN [cache |-> self.cached_records, reqs |-> <<ReqZones>>, err |-> api.zones.err]
    ELSE discover_zones(api.zones.list, api, self.domains, self.cached_records, <<ReqZones>>)

\* Lines 261-267 (282-288): one PUT per cached record whose kind has an
\* address in the input; the first failure ends the call.
RECURSIVE put_records(_, _, _, _, _)
put_records(records, ipv4, ipv6, api, reqs) ==
    IF records = <<>> THEN [reqs |-> reqs, err |-> ""]
    ELSE LET record == Head(records)
             ip == IF record.kind = RecordKind_A /\ IsSome(ipv4) THEN ipv4
                   ELSE IF record.kind = RecordKind_Aaaa /\ IsSome(ipv6) THEN ipv6
                   ELSE None
         IN  IF ip = None THEN put_records(Tail(records), ipv4, ipv6, api, reqs)
             ELSE IF record.id \in api.put_fails
             THEN [reqs |-> Append(reqs, ReqPut(record, Unwrap(ip))), err |-> "put"]
             ELSE put_records(Tail(records), ipv4, ipv6, api,
                              Append(reqs, ReqPut(record, Unwrap(ip))))

\* The error variant of a failed request: DdnsUpdateError::Cloudflare or
\* ::Linode for an error status, ::TransportError otherwise.
rest_error(self, err) ==
    IF err = "transport" THEN "TransportError"
    ELSE IF self.kind = "cloudflare" THEN "Cloudflare" ELSE "Linode"

\* cloudflare::Service::update_record and linode::Service::update_record:
\* the instance afterwards, the value returned and the requests issued.
rest_update_record(self, ips, api) ==
    LET d == discover(self, api)
        after == [self EXCEPT !.cached_records = d.cache]
        ipv4 == find_ipv4(ips)
        ipv6 == find_ipv6(ips)
        p == put_records(d.cache, ipv4, ipv6, api, d.reqs)
    IN  IF d.err # "" THEN [self |-> after, ret |-> RetErr(rest_error(self, d.err)), reqs |-> d.reqs]
        ELSE IF p.err # "" THEN [self |-> after, ret |-> RetErr(rest_error(self, "status")), reqs |-> p.reqs]
        ELSE [self |-> after, ret |-> RetOk(push_opt(push_opt(<<>>, ipv4), ipv6)), reqs |-> p.reqs]
\* ------------------------------------------------ services/noip.rs

\* noip::Service { config, auth }: the instance has no field that a call
\* assigns.
noip_from_config == [kind |-> "noip", auth |-> "Basic"]

\* The answer of request.call() with the status code it carried: ureq
\* returns Err(Error::Status(code, resp)) for codes of 400 and above.
NoIpResponse(kind, code, body) == [kind |-> kind, code |-> code, body |-> body]

\* Variant: a body that is neither good nor nochg is an error.
noip_match_response_strict(resp, result) ==
    IF resp.kind = "Transport" THEN RetErr("TransportError")
    ELSE IF resp.kind = "Status" THEN RetErr("NoIp")
    ELSE IF resp.body = None THEN RetErr("NoIp")
    ELSE IF StartsWith(Unwrap(resp.body), S_good) THEN RetOk(result)
    ELSE IF StartsWith(Unwrap(resp.body), S_nochg) THEN RetOk(<<>>)
    ELSE RetErr("NoIp")

\* The match on request.call() and the Ok(result) that follows it (lines
\* 66-94): the arms for good and nochg return, any other body that was read
\* falls out of the match to Ok(result).
noip_match_response(resp, result) ==
    IF resp.kind = "Transport" THEN RetErr("TransportError")
    ELSE IF resp.kind = "Status"
    THEN IF resp.code >= 500 THEN RetErr("NoIp")
         ELSE IF resp.code >= 400
         THEN RetErr("NoIp")
         ELSE RetPanic
    ELSE IF resp.body = None THEN RetErr("NoIp")
    ELSE IF StartsWith(Unwrap(resp.body), S_good) THEN RetOk(result)
    ELSE IF StartsWith(Unwrap(resp.body), S_nochg) THEN RetOk(<<>>)
    ELSE RetOk(result)

\* noip::Service::update_record(ips) when the server answers resp: the
\* first address of each family goes into the myip parameter and into
\* result (lines 42-64), and the request is issued in every call.
noip_update_record(self, ips, resp) ==
    LET ipv4 == find_ipv4(ips)
        ipv6 == find_ipv6(ips)
        result == push_opt(push_opt(<<>>, ipv4), ipv6)
    IN  Outcome(self, noip_match_response(resp, result), Some(myip(ipv4, ipv6)))
\* ------------------------------------------------------ config.rs: Config

IpConfig(version, method) == [version |-> version, method |-> method, valid |-> TRUE]
\* An [ip.*] entry whose regex or netmask IpService::from_config rejects.
BadIpConfig(version, method) == [version |-> version, method |-> method, valid |-> FALSE]
DdnsConfig(ip, service) == [ip |-> ip, service |-> service]

\* The configuration texts of the model (bytes) with what they parse to.
\* update_rate is filled in by Init.
Config(text, ip, ddns) == [text |-> text, update_rate |-> None, ip |-> ip, ddns |-> ddns]

TwoIps == [n \in {"a", "b"} |-> IF n = "a" THEN IpConfig(V4, "exec") ELSE IpConfig(V6, "http")]
TwoV4 == [n \in {"a", "b"} |-> IF n = "a" THEN IpConfig(V4, "http") ELSE IpConfig(V4, "interface")]
OneIp == [n \in {"a"} |-> IpConfig(V6, "interface")]
NoEntries == [n \in {} |-> 0]

\* Two engine targets with disjoint dependencies.
CfgSplit ==
    Config(<<99, 49>>, TwoIps,
           [t \in {"s1", "s2"} |->
               IF t = "s1" THEN DdnsConfig(<<"a">>, "dyndns") ELSE DdnsConfig(<<"b">>, "dyndns")])
\* Two targets sharing the dependency a, one of them listing two IPs of
\* the same family.
CfgShared ==
    Config(<<99, 50>>, TwoV4,
           [t \in {"s1", "s2"} |->
               IF t = "s1" THEN DdnsConfig(<<"a", "b">>, "dyndns") ELSE DdnsConfig(<<"a">>, "dummy")])
\* The IP b is a dependency of no target.
CfgUnreferenced ==
    Config(<<99, 52>>, TwoIps, [t \in {"s1"} |-> DdnsConfig(<<"a">>, "dummy")])
\* No [ip.*] entries.
CfgNoIps == Config(<<99, 53>>, NoEntries, NoEntries)
\* A dependency that no [ip.*] entry defines.
CfgUnknownDep ==
    Config(<<99, 54>>, OneIp, [t \in {"s1"} |-> DdnsConfig(<<"a", "zz">>, "dummy")])
\* An [ip.*] entry that does not parse.
CfgBadIp ==
    Config(<<99, 55>>, [n \in {"a"} |-> BadIpConfig(V4, "http")],
           [t \in {"s1"} |-> DdnsConfig(<<"a">>, "dummy")])

Configs == {CfgSplit, CfgShared, CfgUnreferenced, CfgNoIps,
            CfgUnknownDep, CfgBadIp}

\* general.update_rate after parse_number_into_optional_nonzero: 0 is None.
parse_number_into_optional_nonzero(value) == IF value = 0 THEN None ELSE Some(value)
UpdateRates == {parse_number_into_optional_nonzero(v) : v \in {0, 1000}}

\* SystemTime::now() as seconds since the epoch: the files found at startup
\* carry the earlier time Earlier, the clock of this run reads Now.
Earlier == 0
Now == 1
Times == {Now}

\* ---------------------------------------------------- the state file

\* The file at general.persistent_state: absent, or a stream of bytes.
\* order is the order its entries were written in; damage and at tell what
\* happened to the bytes since ("cut": only the first at bytes are left,
\* "flip": the byte at position at was replaced).
FileAbsent == [kind |-> "absent", bytes |-> <<>>, order |-> <<>>, damage |-> "none", at |-> 0]
FileWritten(state, order) ==
    [kind |-> "present", bytes |-> write_to(state, order), order |-> order,
     damage |-> "none", at |-> 0]
FileOf(state) ==
    FileWritten(state, CHOOSE o \in Orders(DOMAIN state.ip_addresses) : TRUE)
\* The bytes of tests::error_extravaganza: an invalid magic number.
FileCorrupt ==
    [kind |-> "present", bytes |-> <<100, 121, 110, 111, 101, 114, 115, 0>>,
     order |-> <<>>, damage |-> "flip", at |-> 4]

\* The address maps a run under the configuration ip can have written, up to
\* the choice of addresses: the first address of the family of each IP.
MapsOver(ip) == {[n \in D |-> IpAddr(ip[n].version, 1)] : D \in SUBSET DOMAIN ip}

\* The files a start under configuration c can find: left by a run with the
\* same text, by a run with another text, of another format version, or
\* none that decodes.
Files(c) ==
    {FileAbsent, FileCorrupt}
    \cup {FileOf(PersistentState(STATE_VERSION, Earlier, hash_bytes(c.text), m)) : m \in MapsOver(c.ip)}
    \cup {FileOf(PersistentState(v, Earlier, hash_bytes(c.text), [n \in DOMAIN c.ip |-> IpAddr(c.ip[n].version, 1)])) :
            v \in {0, STATE_VERSION + 1}}
    \cup {FileOf(PersistentState(STATE_VERSION, Earlier, hash_bytes(<<120>>), [n \in {"a"} |-> IpAddr(V4, 1)]))}

\* ------------------------------------------------------------ main.rs

VARIABLES
    pc,                \* where main is
    config,            \* the parsed configuration, with its text
    config_hash,       \* main.rs:71
    file,              \* the state file found at startup
    persistent_state,  \* main.rs:80
    ips,               \* main.rs:116, name -> DynamicIp
    services,          \* main.rs:162, name -> service instance
    is_ip_updated,     \* main.rs:170
    refreshed,         \* the IPs the loop of line 172 has visited this cycle
    evaluated,         \* the targets the loop of line 182 has visited this cycle
    new_ip,            \* name -> what the source returned to update() this cycle
    update_ret,        \* name -> what update() returned this cycle
    calls,             \* target -> the number of update_record calls this cycle
    last_call,         \* the latest update_record call of this cycle
    persisted,         \* what lines 226-254 did this cycle
    cycle,             \* 1 in the first cycle, 2 in every later one
    seeded,            \* name -> the address update_from_cache was given
    ever_resolved,     \* the IPs whose update() has succeeded at least once
    since_outage,      \* engine driver: calls since the last outage response
    read_result,       \* what from_reader returned (main.rs:86, and the codec driver)
    vec,               \* FixedVec driver: the vector
    vec_op,            \* FixedVec driver: the latest call, its argument and value
    network,           \* netmask driver: the latest from_str / from_prefix value
    net_op,            \* netmask driver: the latest call, its arguments and value
    rest,              \* Cloudflare / Linode driver: the service instance
    rest_op,           \* Cloudflare / Linode driver: the latest update_record call
    discovered         \* Cloudflare / Linode driver: a discovery has completed

main_vars == <<pc, config, config_hash, file, persistent_state, ips, services,
               is_ip_updated, refreshed, evaluated, new_ip, update_ret, calls,
               last_call, persisted, cycle, seeded, ever_resolved, since_outage,
               read_result>>
unit_vars == <<vec, vec_op, network, net_op, rest, rest_op, discovered>>
vars == <<main_vars, unit_vars>>

\* The value of a variable of a driver that is not running.
Idle == [op |-> "none"]
UnitsIdle ==
    /\ vec = Idle
    /\ vec_op = Idle
    /\ network = Idle
    /\ net_op = Idle
    /\ rest = Idle
    /\ rest_op = Idle
    /\ discovered = FALSE

NotRun == [ok |-> FALSE, ip |-> None]
NotPersisted == [rebuilt |-> FALSE, write |-> "none"]
NoResponse == Response("none", None)
NoCall == [target |-> "", ips |-> <<>>, resp |-> NoResponse, ret |-> RetErr("none"),
           request |-> None]
\* The record of one update_record call: resp is the answer of the server
\* when a request was issued.
CallRecord(t, in, resp, o) ==
    [target |-> t, ips |-> in, resp |-> IF o.request = None THEN NoResponse ELSE resp,
     ret |-> o.ret, request |-> o.request]
Unloaded == PersistentState(0, 0, <<>>, EmptyMap)
\* from_reader has not been called.
NotRead == [ok |-> FALSE, state |-> Unloaded, err |-> "not read"]

\* The answers a server gives to one request of the engine.
Responses ==
    {Response("Ok", Some(S_good)), Response("Ok", Some(S_nochg)),
     Response("Status", Some(S_911)), Response("Status", Some(S_badauth)),
     Response("Transport", None)}

Init ==
    /\ pc = "read_state"
    /\ \E c \in Configs, r \in UpdateRates : config = [c EXCEPT !.update_rate = r]
    /\ config_hash = hash_bytes(config.text)
    /\ file \in Files(config)
    /\ persistent_state = Unloaded
    /\ ips = NoEntries
    /\ services = NoEntries
    /\ is_ip_updated = FALSE
    /\ refreshed = {}
    /\ evaluated = {}
    /\ new_ip = NoEntries
    /\ update_ret = NoEntries
    /\ calls = NoEntries
    /\ last_call = NoCall
    /\ persisted = NotPersisted
    /\ cycle = 0
    /\ seeded = NoEntries
    /\ ever_resolved = {}
    /\ since_outage = 0
    /\ read_result = NotRead
    /\ UnitsIdle

\* Variant: a file that cannot be read leaves the state as it was.
load_state_keeps_unloaded(f, text, now) ==
    IF f.kind = "absent" THEN Unloaded
    ELSE IF from_reader(f.bytes).ok THEN from_reader(f.bytes).state
    ELSE Unloaded
\* main.rs:80-97: File::open fails on an absent file.
load_state(f, text, now) ==
    IF f.kind = "absent" THEN PersistentState_new(text, now)
    ELSE IF from_reader(f.bytes).ok THEN from_reader(f.bytes).state
    ELSE PersistentState_new(text, now)

ReadState ==
    /\ pc = "read_state"
    /\ \E now \in Times : persistent_state' = load_state(file, config.text, now)
    /\ read_result' = IF file.kind = "absent" THEN NotRead ELSE from_reader(file.bytes)
    /\ pc' = "validate"
    /\ UNCHANGED <<unit_vars, config, config_hash, file, ips, services, is_ip_updated, refreshed,
                   evaluated, new_ip, update_ret, calls, last_call, persisted, cycle, seeded,
                   ever_resolved, since_outage>>

\* main.rs:99-101
Validate ==
    /\ pc = "validate"
    /\ \E now \in Times :
         persistent_state' = validate_against(persistent_state, config.text, now).self
    /\ pc' = "collect_ips"
    /\ UNCHANGED <<unit_vars, read_result, config, config_hash, file, ips, services, is_ip_updated, refreshed,
                   evaluated, new_ip, update_ret, calls, last_call, persisted, cycle, seeded,
                   ever_resolved, since_outage>>

\* main.rs:118-126: the DynamicIp of one [ip.*] entry, seeded when the
\* persistent state has an address under its name.
\* Variant: seeding from the persistent state marks the IP dirty.
collect_ip_marks_dirty(name, state) ==
    IF name \in DOMAIN state.ip_addresses
    THEN DynamicIp(Some(state.ip_addresses[name]), TRUE)
    ELSE DynamicIp_from_config

collect_ip(name, state) ==
    IF name \in DOMAIN state.ip_addresses
    THEN update_from_cache(DynamicIp_from_config, state.ip_addresses[name])
    ELSE DynamicIp_from_config

\* main.rs:115-134
CollectIps ==
    /\ pc = "collect_ips"
    /\ IF \E n \in DOMAIN config.ip : ~config.ip[n].valid
       THEN /\ pc' = "exited"
            /\ UNCHANGED <<ips, seeded>>
       ELSE /\ ips' = [n \in DOMAIN config.ip |-> collect_ip(n, persistent_state)]
            /\ seeded' = [n \in DOMAIN config.ip |->
                            IF n \in DOMAIN persistent_state.ip_addresses
                            THEN Some(persistent_state.ip_addresses[n]) ELSE None]
            /\ pc' = IF DOMAIN config.ip = {} THEN "exited" ELSE "verify"
    /\ UNCHANGED <<unit_vars, read_result, config, config_hash, file, persistent_state, services, is_ip_updated,
                   refreshed, evaluated, new_ip, update_ret, calls, last_call, persisted, cycle,
                   ever_resolved, since_outage>>

\* The start of one iteration of the loop of line 169.
StartCycle ==
    /\ is_ip_updated' = FALSE
    /\ refreshed' = {}
    /\ evaluated' = {}
    /\ new_ip' = [n \in DOMAIN ips |-> NotRun]
    /\ update_ret' = [n \in DOMAIN ips |-> "none"]
    /\ calls' = [t \in DOMAIN config.ddns |-> 0]
    /\ last_call' = NoCall
    /\ persisted' = NotPersisted
    /\ cycle' = IF cycle = 0 THEN 1 ELSE 2

\* Variant: a dependency that is not configured is let through.
errored_never(ddns, dyn_ips) == FALSE
\* main.rs:143-155: some [ddns.*] entry names an IP that is not in ips.
errored(ddns, dyn_ips) ==
    \E t \in DOMAIN ddns : \E d \in Range(ddns[t].ip) : d \notin DOMAIN dyn_ips

\* main.rs:136-166
Verify ==
    /\ pc = "verify"
    /\ IF errored(config.ddns, ips)
       THEN /\ pc' = "exited"
            /\ UNCHANGED <<services, is_ip_updated, refreshed, evaluated, new_ip,
                           update_ret, calls, last_call, persisted, cycle>>
       ELSE /\ services' = [t \in DOMAIN config.ddns |-> to_boxed(config.ddns[t].service)]
            /\ pc' = "loop"
            /\ StartCycle
    /\ UNCHANGED <<unit_vars, read_result, config, config_hash, file, persistent_state, ips, seeded,
                   ever_resolved, since_outage>>

\* main.rs:172-180: update() on one IP not yet visited in this cycle.  The
\* HashMap is visited in an order the program does not choose.
UpdateIp(n) ==
    /\ pc = "loop"
    /\ n \in DOMAIN ips \ refreshed
    /\ \E r \in Resolutions(config.ip[n].version) :
         LET u == update(ips[n], config.ip[n].method, r)
         IN  /\ ips' = [ips EXCEPT ![n] = u.self]
             /\ new_ip' = [new_ip EXCEPT ![n] = r]
             /\ update_ret' = [update_ret EXCEPT ![n] = u.ret]
             /\ ever_resolved' = IF u.ret = "Ok" THEN ever_resolved \cup {n} ELSE ever_resolved
    /\ refreshed' = refreshed \cup {n}
    /\ UNCHANGED <<unit_vars, read_result, pc, config, config_hash, file, persistent_state, services,
                   is_ip_updated, evaluated, calls, last_call, persisted, cycle, seeded,
                   since_outage>>

\* Variant: targets are evaluated while IPs are still being refreshed.
services_may_start_early(all, done) == TRUE
\* The loop of line 182 starts when the loop of line 172 has ended.
services_may_start(all, done) == done = all

\* Variant: any dirty IP makes every target dirty.
target_is_dirty_any_ip(deps, dyn_ips) == \E n \in DOMAIN dyn_ips : is_dirty(dyn_ips[n])
\* Variant: a target is dirty when a dependency has an address.
target_has_address(deps, dyn_ips) == \E i \in 1..Len(deps) : IsSome(address(dyn_ips[deps[i]]))
\* Variant: only the first dependency of a target is looked at.
target_is_dirty_first_dep(deps, dyn_ips) == deps # <<>> /\ is_dirty(dyn_ips[deps[1]])
\* main.rs:183-186
target_is_dirty(deps, dyn_ips) == \E i \in 1..Len(deps) : is_dirty(dyn_ips[deps[i]])

\* Variant: only the addresses of the dirty dependencies are gathered.
RECURSIVE gather_dirty_only(_, _)
gather_dirty_only(deps, dyn_ips) ==
    IF deps = <<>> THEN <<>>
    ELSE (IF is_dirty(dyn_ips[Head(deps)]) THEN address(dyn_ips[Head(deps)]) ELSE <<>>)
         \o gather_dirty_only(Tail(deps), dyn_ips)
\* main.rs:194-199: the cached addresses of the dependencies, in order.
RECURSIVE gather(_, _)
gather(deps, dyn_ips) ==
    IF deps = <<>> THEN <<>>
    ELSE address(dyn_ips[Head(deps)]) \o gather(Tail(deps), dyn_ips)

\* Variant: an error returned by update_record ends the process.
aborts_on_error(ret) == ret.tag # "Ok"
\* main.rs:201-222: both arms of the match on the result of update_record
\* fall through to the next target; only a panic inside the call unwinds.
aborts(ret) == ret.tag = "panic"

\* Variant: a successful call marks the dependencies of the target clean.
ips_after_call_clears(dyn_ips, deps, ret) ==
    [n \in DOMAIN dyn_ips |->
        IF ret.tag = "Ok" /\ n \in Range(deps) THEN DynamicIp(dyn_ips[n].address, FALSE)
        ELSE dyn_ips[n]]
\* main.rs:183-222: the loop borrows ips immutably (&ips[name]) and calls
\* only address() and is_dirty() on them, so the call leaves them as they are.
ips_after_call(dyn_ips, deps, ret) == dyn_ips

\* Variant: no target is skipped.
skips_never(is_dirty_t, service) == FALSE
\* Variant: a target under suspension is called again although it is clean.
skips_unless_suspended(is_dirty_t, service) ==
    ~is_dirty_t /\ service.suspended = Cycles(0)
\* main.rs:190-192: if !is_dirty { continue }, whatever the service
\* returned in earlier cycles.
skips(is_dirty_t, service) == ~is_dirty_t

\* main.rs:182-223: one target not yet visited in this cycle.
EvaluateService(t) ==
    /\ pc = "loop"
    /\ services_may_start(DOMAIN ips, refreshed)
    /\ t \in DOMAIN services \ evaluated
    /\ LET is_dirty_t == target_is_dirty(config.ddns[t].ip, ips)
       IN  /\ is_ip_updated' = (is_ip_updated \/ is_dirty_t)
           /\ IF skips(is_dirty_t, services[t])
              THEN UNCHANGED <<services, calls, last_call, pc, ips>>
              ELSE \E resp \in Responses :
                     LET in == gather(config.ddns[t].ip, ips)
                         o == update_record(services[t], in, resp, config.update_rate)
                     IN  /\ services' = [services EXCEPT ![t] = o.self]
                         /\ calls' = [calls EXCEPT ![t] = @ + 1]
                         /\ last_call' = CallRecord(t, in, resp, o)
                         /\ pc' = IF aborts(o.ret) THEN "panicked" ELSE pc
                         /\ ips' = ips_after_call(ips, config.ddns[t].ip, o.ret)
    /\ evaluated' = evaluated \cup {t}
    /\ UNCHANGED <<unit_vars, read_result, config, config_hash, file, persistent_state, refreshed, new_ip,
                   update_ret, persisted, cycle, seeded, ever_resolved, since_outage>>

\* Variant: only the IPs that changed in the cycle are written.
address_map_dirty(dyn_ips) ==
    [n \in {m \in DOMAIN dyn_ips : IsSome(address(dyn_ips[m])) /\ is_dirty(dyn_ips[m])} |->
        Unwrap(address(dyn_ips[n]))]
\* main.rs:228-233: the addresses of the IPs that have one.
address_map(dyn_ips) ==
    [n \in {m \in DOMAIN dyn_ips : IsSome(address(dyn_ips[m]))} |->
        Unwrap(address(dyn_ips[n]))]

\* What File::create and write_to can answer: the state is written, the
\* file cannot be created, or the write fails.
WriteOutcomes == {"ok", "create_err", "write_err"}

\* main.rs:225-254
Persist ==
    /\ pc = "loop"
    /\ services_may_start(DOMAIN ips, refreshed)
    /\ evaluated = DOMAIN services
    /\ IF is_ip_updated
       THEN \E now \in Times, w \in WriteOutcomes :
              /\ persistent_state' =
                   [new_with_config_hash(config_hash, now) EXCEPT
                      !.ip_addresses = address_map(ips)]
              /\ persisted' = [rebuilt |-> TRUE, write |-> w]
       ELSE UNCHANGED <<persistent_state, persisted>>
    /\ pc' = "sleep"
    /\ UNCHANGED <<unit_vars, read_result, file, config, config_hash, ips, services, is_ip_updated, refreshed,
                   evaluated, new_ip, update_ret, calls, last_call, cycle, seeded, ever_resolved,
                   since_outage>>

\* Variant: the loop goes on without a polling interval.
keeps_running_always(update_rate) == TRUE
\* main.rs:256: if let Some(sleep_for) = &update_rate
keeps_running(update_rate) == IsSome(update_rate)

\* main.rs:256-260, and the head of the next iteration.
Sleep ==
    /\ pc = "sleep"
    /\ keeps_running(config.update_rate)
    /\ pc' = "loop"
    /\ StartCycle
    /\ UNCHANGED <<unit_vars, read_result, config, config_hash, file, persistent_state, ips, services, seeded,
                   ever_resolved, since_outage>>

Break ==
    /\ pc = "sleep"
    /\ ~keeps_running(config.update_rate)
    /\ pc' = "done"
    /\ UNCHANGED <<unit_vars, read_result, config, config_hash, file, persistent_state, ips, services,
                   is_ip_updated, refreshed, evaluated, new_ip, update_ret, calls, last_call,
                   persisted, cycle, seeded, ever_resolved, since_outage>>

Next ==
    \/ ReadState
    \/ Validate
    \/ CollectIps
    \/ Verify
    \/ \E n \in {"a", "b"} : UpdateIp(n)
    \/ \E t \in {"s1", "s2"} : EvaluateService(t)
    \/ Persist
    \/ Sleep
    \/ Break

Spec == Init /\ [][Next]_vars

\* main is sequential code: a step that can be taken is taken (a resolver,
\* a request and thread::sleep all return).
\* The runs under one configuration, with and without polling interval,
\* that start without a state file.
InitLive ==
    /\ Init
    /\ config.text = CfgShared.text
    /\ file = FileAbsent

SpecLive == InitLive /\ [][Next]_vars /\ WF_vars(Next)

\* ------------------------------------------- the engine, driven directly

\* One instance of the shared engine called again and again, as a test of
\* shared_dyndns.rs would, with every polling interval of EngineRates.
EngineRates == {parse_number_into_optional_nonzero(v) : v \in {0, 60, 1000, 2000}}

CfgEngine ==
    Config(<<99, 56>>, TwoIps, [t \in {"s1"} |-> DdnsConfig(<<"a", "b">>, "dyndns")])

\* The address lists handed to the engine: one or two addresses.
EngineInputs ==
    {<<IpAddr(V4, 1)>>, <<IpAddr(V6, 1)>>, <<IpAddr(V4, 1), IpAddr(V6, 1)>>,
     <<IpAddr(V4, 1), IpAddr(V4, 2)>>}

\* Bodies of the "good" branch: two confirmed addresses, a first field that
\* is no address, a confirmed address in the third field only, and text
\* that merely starts with the prefix.
GoodBodies ==
    {S_good \o <<" ">> \o to_string(IpAddr(V4, 2)) \o <<",", " ">> \o to_string(IpAddr(V6, 1)),
     S_good \o <<" ", "x", ",">> \o to_string(IpAddr(V6, 2)) \o <<"\n">>,
     S_good \o <<" ", "x", ",", "y", ",">> \o to_string(IpAddr(V4, 1)),
     S_good \o <<"b", "y", "e">>,
     S_nochg \o <<" ">> \o to_string(IpAddr(V4, 1))}

EngineResponses ==
    {Response("Ok", Some(b)) :
        b \in {S_good, S_good \o <<" ">> \o to_string(IpAddr(V4, 1)), S_nochg, S_911,
               S_dnserr, S_badauth} \cup GoodBodies}
    \cup {Response("Status", Some(b)) : b \in {S_911 \o <<" ">>, S_badauth, <<>>, S_good}}
    \cup {Response("Ok", None), Response("Transport", None)}

\* The server answered, the body was read and names an outage.
IsOutage(call) ==
    /\ IsSome(call.request)
    /\ call.resp.kind \in {"Ok", "Status"}
    /\ IsSome(call.resp.body)
    /\ (StartsWith(Unwrap(call.resp.body), S_911)
          \/ StartsWith(Unwrap(call.resp.body), S_dnserr))

InitEngine ==
    /\ pc = "engine"
    /\ \E r \in EngineRates : config = [CfgEngine EXCEPT !.update_rate = r]
    /\ config_hash = hash_bytes(config.text)
    /\ file = FileAbsent
    /\ persistent_state = Unloaded
    /\ ips = NoEntries
    /\ services = [t \in {"s1"} |-> shared_dyndns_from_config]
    /\ is_ip_updated = FALSE
    /\ refreshed = {}
    /\ evaluated = {}
    /\ new_ip = NoEntries
    /\ update_ret = NoEntries
    /\ calls = NoEntries
    /\ last_call = NoCall
    /\ persisted = NotPersisted
    /\ cycle = 0
    /\ seeded = NoEntries
    /\ ever_resolved = {}
    /\ since_outage = MaxSince
    /\ read_result = NotRead
    /\ UnitsIdle

EngineCall ==
    /\ pc = "engine"
    /\ \E in \in EngineInputs, resp \in EngineResponses :
         LET o == update_record(services["s1"], in, resp, config.update_rate)
             c == CallRecord("s1", in, resp, o)
         IN  /\ services' = [services EXCEPT !["s1"] = o.self]
             /\ last_call' = c
             /\ since_outage' = IF IsOutage(c) THEN 0
                                ELSE IF since_outage < MaxSince THEN since_outage + 1
                                ELSE MaxSince
    /\ UNCHANGED <<unit_vars, read_result, pc, config, config_hash, file, persistent_state, ips, is_ip_updated,
                   refreshed, evaluated, new_ip, update_ret, calls, persisted, cycle,
                   seeded, ever_resolved>>

NextEngine == EngineCall

SpecEngine == InitEngine /\ [][NextEngine]_vars

\* ------------------------------------- the engine over polling cycles

\* One target of the shared engine over the polling cycles of main: in each
\* cycle the target is invoked once (a dependency is dirty) or not at all,
\* and the loop then sleeps update_rate seconds (main.rs 256-260). Here
\* cycle counts the polling cycles since the one of the latest outage
\* answer, up to MaxSince + 1, and last_call is the call of the latest cycle.
CooldownRates == {parse_number_into_optional_nonzero(v) : v \in {60, 700, 1800, 2000}}

CooldownResponses ==
    {Response("Ok", Some(S_good)), Response("Ok", Some(S_911)),
     Response("Status", Some(S_dnserr))}

CooldownInput == <<IpAddr(V4, 1)>>

InitCooldown ==
    /\ pc = "cooldown"
    /\ \E r \in CooldownRates : config = [CfgEngine EXCEPT !.update_rate = r]
    /\ config_hash = hash_bytes(config.text)
    /\ file = FileAbsent
    /\ persistent_state = Unloaded
    /\ ips = NoEntries
    /\ services = [t \in {"s1"} |-> shared_dyndns_from_config]
    /\ is_ip_updated = FALSE
    /\ refreshed = {}
    /\ evaluated = {}
    /\ new_ip = NoEntries
    /\ update_ret = NoEntries
    /\ calls = NoEntries
    /\ last_call = NoCall
    /\ persisted = NotPersisted
    /\ cycle = MaxSince + 1
    /\ seeded = NoEntries
    /\ ever_resolved = {}
    /\ since_outage = MaxSince
    /\ read_result = NotRead
    /\ UnitsIdle

NextCycle(c) ==
    IF IsOutage(c) THEN 0 ELSE IF cycle <= MaxSince THEN cycle + 1 ELSE MaxSince + 1

\* A cycle in which a dependency of the target is dirty.
CycleCalls ==
    /\ pc = "cooldown"
    /\ \E resp \in CooldownResponses :
         LET o == update_record(services["s1"], CooldownInput, resp, config.update_rate)
             c == CallRecord("s1", CooldownInput, resp, o)
         IN  /\ services' = [services EXCEPT !["s1"] = o.self]
             /\ last_call' = c
             /\ cycle' = NextCycle(c)
    /\ UNCHANGED <<unit_vars, read_result, pc, config, config_hash, file, persistent_state,
                   ips, is_ip_updated, refreshed, evaluated, new_ip, update_ret, calls,
                   persisted, seeded, ever_resolved, since_outage>>

\* A cycle in which no dependency of the target is dirty (main.rs 190-192).
CycleSkips ==
    /\ pc = "cooldown"
    /\ last_call' = NoCall
    /\ cycle' = NextCycle(NoCall)
    /\ UNCHANGED <<unit_vars, read_result, pc, config, config_hash, file, persistent_state,
                   ips, services, is_ip_updated, refreshed, evaluated, new_ip, update_ret,
                   calls, persisted, seeded, ever_resolved, since_outage>>

NextCooldown == CycleCalls \/ CycleSkips

SpecCooldown == InitCooldown /\ [][NextCooldown]_vars

\* ------------------------------------------- the No-IP provider, driven directly

\* The address lists main can hand to a target: one or two addresses.
NoIpAddrs == {IpAddr(V4, 1), IpAddr(V4, 2), IpAddr(V6, 1), IpAddr(V6, 2)}
NoIpInputs == {<<x>> : x \in NoIpAddrs} \cup {<<x, y>> : x \in NoIpAddrs, y \in NoIpAddrs}

\* Answers with a successful status and a body of each branch, an
\* unreadable body, error statuses of both ranges, and no answer.
NoIpResponses ==
    {NoIpResponse("Ok", 200, Some(b)) :
        b \in {S_good, S_nochg \o <<" ">> \o to_string(IpAddr(V4, 1)), S_911, S_badauth, <<>>}}
    \cup {NoIpResponse("Ok", 200, None), NoIpResponse("Status", 500, Some(S_911)),
          NoIpResponse("Status", 401, Some(S_badauth)), NoIpResponse("Status", 401, None),
          NoIpResponse("Transport", 0, None)}

InitNoIp ==
    /\ pc = "noip"
    /\ config = CfgEngine
    /\ config_hash = hash_bytes(config.text)
    /\ file = FileAbsent
    /\ persistent_state = Unloaded
    /\ ips = NoEntries
    /\ services = [t \in {"s1"} |-> noip_from_config]
    /\ is_ip_updated = FALSE
    /\ refreshed = {}
    /\ evaluated = {}
    /\ new_ip = NoEntries
    /\ update_ret = NoEntries
    /\ calls = NoEntries
    /\ last_call = NoCall
    /\ persisted = NotPersisted
    /\ cycle = 0
    /\ seeded = NoEntries
    /\ ever_resolved = {}
    /\ since_outage = MaxSince
    /\ read_result = NotRead
    /\ UnitsIdle

NoIpCall ==
    /\ pc = "noip"
    /\ \E in \in NoIpInputs, resp \in NoIpResponses :
         LET o == noip_update_record(services["s1"], in, resp)
         IN  /\ services' = [services EXCEPT !["s1"] = o.self]
             /\ last_call' = CallRecord("s1", in, resp, o)
    /\ UNCHANGED <<unit_vars, read_result, pc, config, config_hash, file, persistent_state,
                   ips, is_ip_updated, refreshed, evaluated, new_ip, update_ret, calls,
                   persisted, cycle, seeded, ever_resolved, since_outage>>

NextNoIp == NoIpCall

SpecNoIp == InitNoIp /\ [][NextNoIp]_vars
\* ------------------------------------------- the file format, driven directly

\* A state is written to a buffer as tests::reversible does, the buffer is
\* left alone, cut short or changed in one byte, and read back.

\* The address stored under each name: both families occur.
CodecAddr(name) ==
    CASE name = "" -> IpAddr(V4, 1)
      [] name = "a" -> IpAddr(V6, 2)
      [] name = "U+4F60" -> IpAddr(V4, 2)
CodecMaps == {[n \in D |-> CodecAddr(n)] : D \in SUBSET {"", "a", "U+4F60"}}
CodecStates ==
    {PersistentState(v, ts, hash_bytes(<<99, 49>>), m) :
        v \in {0, STATE_VERSION}, ts \in {Earlier, 258}, m \in CodecMaps}

\* The bytes a damaged byte is replaced with.
FlipValues == {0, 1, 2, 111}
\* The last position of the magic and the version.
FlipArea == 12

InitCodec ==
    /\ pc = "codec"
    /\ config = CfgEngine
    /\ config_hash = hash_bytes(config.text)
    /\ file = FileAbsent
    /\ persistent_state \in CodecStates
    /\ ips = NoEntries
    /\ services = NoEntries
    /\ is_ip_updated = FALSE
    /\ refreshed = {}
    /\ evaluated = {}
    /\ new_ip = NoEntries
    /\ update_ret = NoEntries
    /\ calls = NoEntries
    /\ last_call = NoCall
    /\ persisted = NotPersisted
    /\ cycle = 0
    /\ seeded = NoEntries
    /\ ever_resolved = {}
    /\ since_outage = 0
    /\ read_result = NotRead
    /\ UnitsIdle

\* write_to into an empty buffer.
CodecWrite ==
    /\ pc = "codec"
    /\ \E order \in Orders(DOMAIN persistent_state.ip_addresses) :
         file' = FileWritten(persistent_state, order)
    /\ pc' = "written"
    /\ UNCHANGED <<unit_vars, config, config_hash, persistent_state, ips, services, is_ip_updated,
                   refreshed, evaluated, new_ip, update_ret, calls, last_call, persisted,
                   cycle, seeded, ever_resolved, since_outage, read_result>>

\* The buffer loses everything after its first k bytes.
CodecCut ==
    /\ pc = "written"
    /\ \E k \in 0..(Len(file.bytes) - 1) :
         file' = [file EXCEPT !.bytes = SubSeq(@, 1, k), !.damage = "cut", !.at = k]
    /\ pc' = "damaged"
    /\ UNCHANGED <<unit_vars, config, config_hash, persistent_state, ips, services, is_ip_updated,
                   refreshed, evaluated, new_ip, update_ret, calls, last_call, persisted,
                   cycle, seeded, ever_resolved, since_outage, read_result>>

\* One byte of the magic or the version is replaced, in a whole buffer or
\* in one cut short inside the magic.
CodecFlip ==
    /\ \/ pc = "written"
       \/ pc = "damaged" /\ file.damage = "cut" /\ file.at < 8
    /\ \E i \in 1..FlipArea, v \in FlipValues :
         /\ i <= Len(file.bytes)
         /\ v # file.bytes[i]
         /\ file' = [file EXCEPT !.bytes = [@ EXCEPT ![i] = v], !.damage = "flip", !.at = i]
    /\ pc' = "damaged"
    /\ UNCHANGED <<unit_vars, config, config_hash, persistent_state, ips, services, is_ip_updated,
                   refreshed, evaluated, new_ip, update_ret, calls, last_call, persisted,
                   cycle, seeded, ever_resolved, since_outage, read_result>>

\* from_reader on the buffer.
CodecRead ==
    /\ pc \in {"written", "damaged"}
    /\ read_result' = from_reader(file.bytes)
    /\ pc' = "read"
    /\ UNCHANGED <<unit_vars, config, config_hash, file, persistent_state, ips, services,
                   is_ip_updated, refreshed, evaluated, new_ip, update_ret, calls, last_call,
                   persisted, cycle, seeded, ever_resolved, since_outage>>

NextCodec == CodecWrite \/ CodecCut \/ CodecFlip \/ CodecRead

SpecCodec == InitCodec /\ [][NextCodec]_vars

\* ------------------------------------------------ units driven directly

\* The variables of main while one unit is driven on its own.
MainIdle(at) ==
    /\ pc = at
    /\ config = CfgEngine
    /\ config_hash = hash_bytes(config.text)
    /\ file = FileAbsent
    /\ persistent_state = Unloaded
    /\ ips = NoEntries
    /\ services = NoEntries
    /\ is_ip_updated = FALSE
    /\ refreshed = {}
    /\ evaluated = {}
    /\ new_ip = NoEntries
    /\ update_ret = NoEntries
    /\ calls = NoEntries
    /\ last_call = NoCall
    /\ persisted = NotPersisted
    /\ cycle = 0
    /\ seeded = NoEntries
    /\ ever_resolved = {}
    /\ since_outage = MaxSince
    /\ read_result = NotRead

\* ---------------------------------------------- FixedVec driven directly

\* The items pushed and the indices asked for (util.rs:152-160).
Items == 1..MaxItem
Indices == {0, 1, 2, 3, 12345678}

InitVec ==
    /\ MainIdle("fixedvec")
    /\ vec = FixedVec_new
    /\ vec_op = Idle
    /\ network = Idle
    /\ net_op = Idle
    /\ rest = Idle
    /\ rest_op = Idle
    /\ discovered = FALSE

VecPush ==
    /\ pc = "fixedvec"
    /\ \E item \in Items :
         LET o == FixedVec_push(vec, item)
         IN  /\ vec' = o.self
             /\ vec_op' = [op |-> "push", arg |-> item, ret |-> o.ret]
    /\ UNCHANGED <<main_vars, network, net_op, rest, rest_op, discovered>>

VecGet ==
    /\ pc = "fixedvec"
    /\ \E index \in Indices :
         vec_op' = [op |-> "get", arg |-> index, ret |-> FixedVec_get(vec, index)]
    /\ UNCHANGED <<main_vars, vec, network, net_op, rest, rest_op, discovered>>

NextVec == VecPush \/ VecGet

SpecVec == InitVec /\ [][NextVec]_vars
\* ---------------------------------------------- netmask driven directly

\* Left sides of NetworkV4 strings: three addresses, then text that is no
\* IPv4 address.
V4Lefts ==
    {<<"1", "9", "8", ".", "5", "1", ".", "1", "0", "0", ".", "2">>,  \* 198.51.100.2
     <<"1", "9", "2", ".", "1", "6", "8", ".", "0", ".", "1">>,  \* 192.168.0.1
     <<"2", "5", "5", ".", "2", "5", "5", ".", "2", "5", "5", ".", "2", "5", "5">>,  \* 255.255.255.255
     <<"x">>,  \* x
     <<"2", "5", "6", ".", "1", ".", "1", ".", "1">>,  \* 256.1.1.1
     <<>>,  \* (empty)
     <<"0", "1", ".", "2", ".", "3", ".", "4">>,  \* 01.2.3.4
     <<"f", "e", "8", "0", ":", ":", "1">>}  \* fe80::1

\* Right sides of NetworkV4 strings: prefixes, numbers above 32, text that
\* is no number, and masks.
V4Rights ==
    {<<"0">>,  \* 0
     <<"8">>,  \* 8
     <<"2", "4">>,  \* 24
     <<"3", "2">>,  \* 32
     <<"+", "8">>,  \* +8
     <<"0", "1", "6">>,  \* 016
     <<"3", "3">>,  \* 33
     <<"2", "5", "5">>,  \* 255
     <<"2", "5", "6">>,  \* 256
     <<"1", "0", "0", "0">>,  \* 1000
     <<"x">>,  \* x
     <<>>,  \* (empty)
     <<"-", "1">>,  \* -1
     <<"2", "4", "/", "1">>,  \* 24/1
     <<"2", "5", "5", ".", "2", "5", "5", ".", "2", "5", "5", ".", "2", "5", "5">>,  \* 255.255.255.255
     <<"2", "5", "5", ".", "2", "5", "5", ".", "0", ".", "2", "5", "5">>,  \* 255.255.0.255
     <<"0", ".", "0", ".", "2", "5", "5", ".", "2", "5", "5">>}  \* 0.0.255.255

\* Left sides of NetworkV6 strings: addresses, then text that is no IPv6
\* address.
V6Lefts ==
    {<<"f", "e", "8", "0", ":", ":">>,  \* fe80::
     <<":", ":", "d", "e", "a", "d", ":", "b", "e", "e", "f">>,  \* ::dead:beef
     <<"2", "0", "0", "1", ":", "d", "b", "8", ":", ":">>,  \* 2001:db8::
     <<"f", "e", "8", "0", ":", ":", "1", "2", "3", "4", ":", "c", "a", "f", "e", ":", "b", "a", "b", "e", ":", "5", "6", "7", "8">>,  \* fe80::1234:cafe:babe:5678
     <<"8", ":", "7", ":", "6", ":", "5", ":", "4", ":", "3", ":", "2", ":", "1">>,  \* 8:7:6:5:4:3:2:1
     <<":", ":">>,  \* ::
     <<"g", ":", ":">>,  \* g::
     <<"1", ":", ":", "2", ":", ":", "3">>,  \* 1::2::3
     <<"1", "9", "8", ".", "5", "1", ".", "1", "0", "0", ".", "2">>,  \* 198.51.100.2
     <<>>}  \* (empty)

\* Right sides of NetworkV6 strings.
V6Rights ==
    {<<"0">>,  \* 0
     <<"1", "0">>,  \* 10
     <<"6", "4">>,  \* 64
     <<"1", "2", "8">>,  \* 128
     <<"1", "2", "9">>,  \* 129
     <<"2", "5", "5">>,  \* 255
     <<"2", "5", "6">>,  \* 256
     <<"x">>,  \* x
     <<>>,  \* (empty)
     <<":", ":", "f", "f", "f", "f", ":", "f", "f", "f", "f", ":", "f", "f", "f", "f", ":", "f", "f", "f", "f">>,  \* ::ffff:ffff:ffff:ffff
     <<":", ":", "f", "0", "0", "f", ":", "f", "f", "f", "f", ":", "f", "0", "0", "f", ":", "f", "f", "f", "f">>,  \* ::f00f:ffff:f00f:ffff
     <<"f", "f", "f", "f", ":", "f", "f", "f", "f", ":", ":">>,  \* ffff:ffff::
     <<"f", "0", "f", "0", ":", "f", "c", "f", "c", ":", ":">>}  \* f0f0:fcfc::

\* Strings without a slash.
NoSlash ==
    {<<"1", "9", "8", ".", "5", "1", ".", "1", "0", "0", ".", "2">>,  \* 198.51.100.2
     <<"f", "e", "8", "0", ":", ":">>,  \* fe80::
     <<"2", "4">>,  \* 24
     <<>>}  \* (empty)

\* The candidates of tests::network_v4.
V4Tests ==
    {<<"1", "9", "8", ".", "5", "1", ".", "1", "0", "0", ".", "0">>,  \* 198.51.100.0
     <<"1", "9", "8", ".", "5", "1", ".", "1", "0", "0", ".", "9", "8">>,  \* 198.51.100.98
     <<"1", "9", "8", ".", "5", "1", ".", "1", "0", "0", ".", "2", "5", "5">>,  \* 198.51.100.255
     <<"1", "9", "8", ".", "5", "1", ".", "1", "0", "1", ".", "0">>,  \* 198.51.101.0
     <<"1", "9", "8", ".", "5", "2", ".", "1", "0", "1", ".", "1", "3", "2">>,  \* 198.52.101.132
     <<"1", "9", "9", ".", "0", ".", "1", "0", "0", ".", "0">>,  \* 199.0.100.0
     <<"2", "5", "5", ".", "5", "1", ".", "1", "0", "0", ".", "2">>}  \* 255.51.100.2

\* The candidates of tests::network_v6.
V6Tests ==
    {<<"f", "e", "8", "0", ":", ":", "1">>,  \* fe80::1
     <<"f", "e", "8", "0", ":", ":", "8", ":", "7", ":", "6", ":", "5">>,  \* fe80::8:7:6:5
     <<"f", "e", "8", "1", ":", ":", "1">>,  \* fe81::1
     <<"2", "0", "0", "1", ":", "d", "b", "8", ":", "f", "f", ":", ":", "1">>,  \* 2001:db8:ff::1
     <<"f", "e", "8", "0", ":", ":", "2", "2", "3", "4", ":", "c", "a", "f", "e", ":", "b", "a", "b", "e", ":", "5", "6", "7", "8">>,  \* fe80::2234:cafe:babe:5678
     <<"f", "e", "8", "0", ":", "1", "2", "3", "4", ":", "c", "a", "f", "e", ":", "b", "a", "b", "e", ":", ":">>}  \* fe80:1234:cafe:babe::

V4Inputs == {l \o <<"/">> \o r : l \in V4Lefts, r \in V4Rights} \cup NoSlash
V6Inputs == {l \o <<"/">> \o r : l \in V6Lefts, r \in V6Rights} \cup NoSlash

\* The base addresses and prefix lengths from_prefix is called with: every
\* length for IPv4, the lengths around the byte, group and half boundaries
\* for IPv6.
V4Bases == {Unwrap(parse_Ipv4Addr(s)) : s \in {l \in V4Lefts : IsSome(parse_Ipv4Addr(l))}}
V6Bases == {Unwrap(parse_Ipv6Addr(s)) : s \in {l \in V6Lefts : IsSome(parse_Ipv6Addr(l))}}
V4Prefixes == 0..W4
V6Prefixes == {0, 1, 8, 9, 16, 17, 63, 64, 65, 127, W6}

\* The address that differs from addr in bit k alone, bit 1 being the most
\* significant.
FlipBit(addr, k) ==
    to_be_bytes([i \in 1..(8 * Len(addr)) |->
                    IF i = k THEN 1 - from_be_bytes(addr)[i] ELSE from_be_bytes(addr)[i]])

\* The addresses in_range is asked about: the address of the matcher, the
\* addresses one bit away from it, and those of the tests.
Candidates(addr) ==
    IF Len(addr) = 4
    THEN {addr} \cup {FlipBit(addr, k) : k \in 1..W4}
              \cup {Unwrap(parse_Ipv4Addr(s)) : s \in V4Tests}
    ELSE {addr} \cup {FlipBit(addr, k) : k \in V6Prefixes \ {0}}
              \cup {Unwrap(parse_Ipv6Addr(s)) : s \in V6Tests}

\* The matcher under test with the call that made it, and one call.
Matcher(op, input, prefix, result) ==
    [op |-> op, input |-> input, prefix |-> prefix, result |-> result]
NetOp(op, addr, endian, ret) == [op |-> op, addr |-> addr, endian |-> endian, ret |-> ret]

\* The driver makes one matcher and asks one question about it, as each
\* assertion of the tests does: the constructors and in_range are pure.
InitNet ==
    /\ MainIdle("netmask")
    /\ vec = Idle
    /\ vec_op = Idle
    /\ network = Idle
    /\ net_op = Idle
    /\ rest = Idle
    /\ rest_op = Idle
    /\ discovered = FALSE

ParseV4 ==
    /\ pc = "netmask"
    /\ network = Idle
    /\ \E s \in V4Inputs : network' = Matcher("from_str", s, 0, NetworkV4_from_str(s))
    /\ net_op' = NetOp("from_str", <<>>, "none", FALSE)
    /\ UNCHANGED <<main_vars, vec, vec_op, rest, rest_op, discovered>>

ParseV6 ==
    /\ pc = "netmask"
    /\ network = Idle
    /\ \E s \in V6Inputs : network' = Matcher("from_str", s, 0, NetworkV6_from_str(s))
    /\ net_op' = NetOp("from_str", <<>>, "none", FALSE)
    /\ UNCHANGED <<main_vars, vec, vec_op, rest, rest_op, discovered>>

FromPrefixV4 ==
    /\ pc = "netmask"
    /\ network = Idle
    /\ \E b \in V4Bases, p \in V4Prefixes :
         network' = Matcher("from_prefix", b, p, NetOk(NetworkV4_from_prefix(b, p)))
    /\ net_op' = NetOp("from_prefix", <<>>, "none", FALSE)
    /\ UNCHANGED <<main_vars, vec, vec_op, rest, rest_op, discovered>>

FromPrefixV6 ==
    /\ pc = "netmask"
    /\ network = Idle
    /\ \E b \in V6Bases, p \in V6Prefixes :
         network' = Matcher("from_prefix", b, p, NetOk(NetworkV6_from_prefix(b, p)))
    /\ net_op' = NetOp("from_prefix", <<>>, "none", FALSE)
    /\ UNCHANGED <<main_vars, vec, vec_op, rest, rest_op, discovered>>

InRange ==
    /\ pc = "netmask"
    /\ network # Idle
    /\ net_op.op # "in_range"
    /\ network.result.ok
    /\ \E c \in Candidates(network.result.value.address), e \in Endians :
         net_op' = NetOp("in_range", c, e, in_range(network.result.value, c, e))
    /\ UNCHANGED <<main_vars, network, vec, vec_op, rest, rest_op, discovered>>

NextNet == ParseV4 \/ ParseV6 \/ FromPrefixV4 \/ FromPrefixV6 \/ InRange

SpecNet == InitNet /\ [][NextNet]_vars
\* ------------------------------- Cloudflare and Linode, driven directly

\* The configured domain and the records the API knows: an A and an AAAA
\* record of the domain in zone 1, a second A record of the domain in zone 2,
\* and an A record of another domain.
RestDomains == {"host.example"}
RecA == Record(1, 1, "host.example", RecordKind_A)
RecAaaa == Record(1, 2, "host.example", RecordKind_Aaaa)
RecA2 == Record(2, 3, "host.example", RecordKind_A)
RecOther == Record(1, 4, "other.example", RecordKind_A)

ZoneAnswers == {ApiErr("status"), ApiOk(<<>>), ApiOk(<<1>>), ApiOk(<<1, 2>>)}
Zone1Answers ==
    {ApiErr("transport"), ApiOk(<<>>), ApiOk(<<RecOther>>), ApiOk(<<RecOther, RecA>>),
     ApiOk(<<RecA, RecAaaa>>)}
Zone2Answers == {ApiErr("status"), ApiOk(<<RecA2>>)}
PutFails == {{}, {1}}
Apis ==
    {Api(z, <<r1, r2>>, f) :
        z \in ZoneAnswers, r1 \in Zone1Answers, r2 \in Zone2Answers, f \in PutFails}
RestInputs ==
    {<<IpAddr(V4, 1)>>, <<IpAddr(V6, 1)>>, <<IpAddr(V4, 2), IpAddr(V6, 1)>>}

\* One update_record call: the input, the requests it issued and its value.
RestCall(in, o) == [op |-> "update_record", ips |-> in, reqs |-> o.reqs, ret |-> o.ret]
IsListing(r) == r.req \in {"zones", "records"}
\* The call ran the discovery to its end.
DiscoveryCompleted(self, api) ==
    /\ needs_discovery(self)
    /\ api.zones.ok
    /\ \A i \in 1..Len(api.zones.list) : api.records[api.zones.list[i]].ok

InitRest ==
    /\ MainIdle("rest")
    /\ vec = Idle
    /\ vec_op = Idle
    /\ network = Idle
    /\ net_op = Idle
    /\ \E provider \in {"cloudflare", "linode"} : rest = rest_from_config(provider, RestDomains)
    /\ rest_op = Idle
    /\ discovered = FALSE

RestUpdate ==
    /\ pc = "rest"
    /\ \E in \in RestInputs, api \in Apis :
         LET o == rest_update_record(rest, in, api)
         IN  /\ rest' = o.self
             /\ rest_op' = RestCall(in, o)
             /\ discovered' = (discovered \/ DiscoveryCompleted(rest, api))
    /\ UNCHANGED <<main_vars, vec, vec_op, network, net_op>>

NextRest == RestUpdate

SpecRest == InitRest /\ [][NextRest]_vars
\* ------------------------------------------------------------- properties

InLoop == pc \in {"loop", "sleep", "done", "panicked"}

\* The step is update() on the IP n.
UpdateStep(n) == n \notin refreshed /\ n \in refreshed'

\* C1: after every successful update() the cached address is the resolved
\* one, and dirty is true exactly when there was no cached address before or
\* the cached address differed from the resolved one.
C1_SuccessfulUpdate ==
    [][\A n \in DOMAIN ips :
         (UpdateStep(n) /\ new_ip'[n].ok) =>
            /\ update_ret'[n] = "Ok"
            /\ ips'[n].address = new_ip'[n].ip
            /\ ips'[n].dirty = (ips[n].address = None \/ ips[n].address # new_ip'[n].ip)]_vars

\* An IP that was not seeded resolved to the address it already had, in a
\* later cycle, and is clean.
C1_Witness ==
    \E n \in DOMAIN ips :
        /\ pc = "loop" /\ cycle = 2 /\ n \in refreshed /\ seeded[n] = None
        /\ new_ip[n].ok /\ ips[n].address = new_ip[n].ip /\ ~ips[n].dirty

\* C2: when update() fails the cached address and the dirty bit keep their
\* values and the error of the source is returned.
C2_FailedUpdate ==
    [][\A n \in DOMAIN ips :
         (UpdateStep(n) /\ ~new_ip'[n].ok) =>
            /\ ips'[n] = ips[n]
            /\ update_ret'[n] \in {"ExecutionFailure", "InterfaceFailure", "HttpFailure"}
            /\ update_ret'[n] = ErrorOf(config.ip[n].method)]_vars

\* A failed update() of an IP that held a dirty address, which it keeps.
C2_Witness ==
    \E n \in DOMAIN ips :
        /\ pc = "loop" /\ n \in refreshed /\ ~new_ip[n].ok
        /\ update_ret[n] # "Ok" /\ IsSome(ips[n].address) /\ ips[n].dirty

OwnDirty(t) == \E d \in Range(config.ddns[t].ip) : ips[d].dirty

\* C3: in every cycle update_record is called on a target exactly when one
\* of its own dependencies is dirty after the refresh, and at most once.
C3_CalledIffOwnDirty ==
    InLoop =>
        \A t \in DOMAIN calls :
            /\ calls[t] <= 1
            /\ t \notin evaluated => calls[t] = 0
            /\ t \in evaluated => calls[t] = (IF OwnDirty(t) THEN 1 ELSE 0)

\* A target with clean dependencies was skipped in a cycle in which another
\* target, with a dirty dependency, was called.
C3_Witness ==
    /\ pc = "sleep"
    /\ \E t, u \in DOMAIN calls :
          ~OwnDirty(t) /\ calls[t] = 0 /\ OwnDirty(u) /\ calls[u] = 1

\* C4: a cycle in which no IP is dirty after the refresh makes no
\* update_record call and neither rebuilds nor writes the persistent state.
C4_CleanCycle ==
    (InLoop /\ refreshed = DOMAIN ips /\ \A n \in DOMAIN ips : ~ips[n].dirty) =>
        /\ \A t \in DOMAIN calls : calls[t] = 0
        /\ ~is_ip_updated
        /\ persisted = NotPersisted

\* The end of a later cycle in which every IP has an address and none is
\* dirty.
C4_Witness ==
    /\ pc = "sleep" /\ cycle = 2 /\ DOMAIN calls # {}
    /\ \A n \in DOMAIN ips : IsSome(ips[n].address) /\ ~ips[n].dirty
    /\ persisted = NotPersisted

\* C5: in every cycle in which some configured IP is dirty after the
\* refresh, whether or not a target depends on it, the persistent state is
\* rebuilt and a write of the file is attempted.
C5_DirtyCyclePersists ==
    (pc \in {"sleep", "done"} /\ \E n \in DOMAIN ips : ips[n].dirty) =>
        persisted.rebuilt /\ persisted.write # "none"

Floor(update_rate) ==
    IF update_rate = None THEN 0 ELSE COOLDOWN_SECS \div Unwrap(update_rate)

\* C6: an outage response sets Cycles(floor(1800 / r)), Cycles(0) without
\* polling; each of the next floor(1800 / r) calls returns Suspended without
\* a request and takes one off the counter, which never goes below zero;
\* the call after those issues a request again.
C6_Cooldown ==
    pc = "engine" =>
        LET s == services["s1"].suspended
            fl == Floor(config.update_rate)
        IN  /\ s.n >= 0
            /\ since_outage = 0 => s = Cycles(fl)
            /\ (since_outage >= 1 /\ since_outage <= fl) =>
                  /\ last_call.ret = RetSuspended(Cycles(fl - since_outage))
                  /\ last_call.request = None
                  /\ s = Cycles(fl - since_outage)
            /\ (since_outage = fl + 1 /\ since_outage < MaxSince) =>
                  IsSome(last_call.request)

\* With a polling interval of 60 seconds, the 31st call after an outage
\* response has issued a request.
C6_Witness ==
    /\ pc = "engine" /\ config.update_rate = Some(60)
    /\ since_outage = 31 /\ IsSome(last_call.request)

IsOther(body) ==
    /\ ~StartsWith(body, S_good) /\ ~StartsWith(body, S_nochg)
    /\ ~StartsWith(body, S_911) /\ ~StartsWith(body, S_dnserr)

\* C7: a response with none of the four known prefixes sets Indefinite, and
\* Indefinite is absorbing: every later call on the instance returns
\* Suspended without a request and nothing changes the state again.
C7_IndefiniteAbsorbing ==
    /\ [](\A t \in DOMAIN services :
            (/\ services[t].kind = "dyndns"
             /\ last_call.target = t
             /\ IsSome(last_call.request)
             /\ last_call.resp.kind \in {"Ok", "Status"}
             /\ IsSome(last_call.resp.body)
             /\ IsOther(Unwrap(last_call.resp.body)))
            => services[t].suspended = Indefinite)
    /\ [][\A t \in DOMAIN services :
            services[t].suspended = Indefinite =>
               /\ services'[t].suspended = Indefinite
               /\ calls'[t] > calls[t] =>
                     /\ last_call'.target = t
                     /\ last_call'.request = None
                     /\ last_call'.ret = RetSuspended(Indefinite)]_vars

\* A call made on an instance that was suspended indefinitely in an
\* earlier cycle.
C7_Witness ==
    \E t \in DOMAIN services :
        /\ services[t].suspended = Indefinite /\ calls[t] = 1
        /\ last_call.target = t /\ last_call.ret = RetSuspended(Indefinite)

AnyCall == \E t \in DOMAIN calls : calls[t] > 0

\* C8: within a cycle every IP has been refreshed before the first
\* update_record call, and no IP is refreshed after one.
C8_RefreshBeforeServices ==
    /\ [](AnyCall => refreshed = DOMAIN ips)
    /\ [][(AnyCall /\ refreshed' # {}) => (ips' = ips /\ refreshed' = refreshed)]_vars

\* Both targets of a configuration with two IPs were called in one cycle.
C8_Witness ==
    /\ Cardinality(DOMAIN ips) = 2
    /\ \A t \in {"s1", "s2"} : t \in DOMAIN calls /\ calls[t] = 1

SeededSame(n) ==
    /\ IsSome(seeded[n]) /\ n \in refreshed
    /\ new_ip[n].ok /\ new_ip[n].ip = seeded[n]

\* C9: seeding sets the cached address and leaves dirty false; an IP seeded
\* with A whose first refresh resolves to A is not dirty, and a target whose
\* dependencies are all in that situation is not called in the first cycle.
C9_SeedKeepsClean ==
    /\ pc = "verify" =>
          \A n \in DOMAIN ips :
              IsSome(seeded[n]) => ips[n] = DynamicIp(seeded[n], FALSE)
    /\ (InLoop /\ cycle = 1) =>
          /\ \A n \in DOMAIN ips : SeededSame(n) => ~ips[n].dirty
          /\ \A t \in DOMAIN calls :
                (\A d \in Range(config.ddns[t].ip) : SeededSame(d)) => calls[t] = 0

\* The first cycle ends with a target evaluated and skipped, all of whose
\* dependencies were seeded and resolved to the seeded address.
C9_Witness ==
    /\ pc = "sleep" /\ cycle = 1
    /\ read_result.ok /\ read_result.state.config_hash = config_hash
    /\ \E t \in DOMAIN calls :
          /\ t \in evaluated /\ calls[t] = 0
          /\ \A d \in Range(config.ddns[t].ip) : SeededSame(d)

Constructed == pc \in {"verify", "loop", "sleep", "done", "panicked"}

\* C10 as stated: an IP that was not seeded is dirty from construction
\* until its first successful resolution.
C10_DirtyFromConstruction ==
    Constructed =>
        \A n \in DOMAIN ips :
            (seeded[n] = None /\ n \notin ever_resolved) => ips[n].dirty

\* C10 amended: an IP that was not seeded is clean and without address from
\* construction until its first successful resolution, which makes it
\* dirty; after that dirty is governed by comparison of the resolved
\* address with the cached one.
C10_CleanUntilFirstSuccess ==
    /\ [](Constructed =>
            \A n \in DOMAIN ips :
                (seeded[n] = None /\ n \notin ever_resolved) =>
                    (~ips[n].dirty /\ ips[n].address = None))
    /\ [][\A n \in DOMAIN ips :
            (UpdateStep(n) /\ new_ip'[n].ok /\ seeded[n] = None) =>
                ips'[n].dirty = (IF n \in ever_resolved
                                 THEN ips[n].address # new_ip'[n].ip
                                 ELSE TRUE)]_vars

\* An IP that was not seeded, after a failed first refresh.
C10_Witness ==
    \E n \in DOMAIN ips :
        /\ pc = "loop" /\ n \in refreshed /\ ~new_ip[n].ok
        /\ seeded[n] = None /\ n \notin ever_resolved /\ ~ips[n].dirty

Deps(t) == Range(config.ddns[t].ip)

\* C11 as stated: every target with an unseeded dependency is called at
\* least once in a run that enters the loop, also when the resolution of
\* that IP fails.  A run without polling interval has one cycle, so at its
\* end calls counts the calls of the run.
C11_AttemptInEveryRun ==
    pc = "done" =>
        \A t \in DOMAIN calls :
            (\E d \in Deps(t) : seeded[d] = None) => calls[t] >= 1

\* C11 amended: a target is called in the cycle in which an unseeded
\* dependency resolves for the first time (or to a new address), whatever
\* happens to its other dependencies; a target whose dependencies were all
\* neither seeded nor ever resolved is not called.
C11_AttemptOnFirstSuccess ==
    InLoop =>
        \A t \in DOMAIN calls :
            /\ (/\ t \in evaluated
                /\ \E d \in Deps(t) :
                      /\ seeded[d] = None /\ new_ip[d].ok
                      /\ (cycle = 1 \/ ips[d].dirty))
               => calls[t] = 1
            /\ (\A d \in Deps(t) : seeded[d] = None /\ d \notin ever_resolved)
               => calls[t] = 0

\* In the first cycle a target was called for an unseeded dependency that
\* resolved while another of its dependencies failed to resolve, and
\* another target, whose only dependency failed, was evaluated and skipped.
C11_Witness ==
    /\ pc = "sleep" /\ cycle = 1
    /\ \E t \in DOMAIN calls :
          /\ calls[t] = 1
          /\ \E d, e \in Deps(t) : seeded[d] = None /\ new_ip[d].ok /\ ~new_ip[e].ok
    /\ \E u \in DOMAIN calls :
          /\ u \in evaluated /\ calls[u] = 0
          /\ \A d \in Deps(u) : seeded[d] = None /\ d \notin ever_resolved

\* ------------------------------------------ properties of the file format

\* The bytes of the magic, the version, the timestamp and the hash.
HEADER_LEN == 28

\* The buffer is what write_to produced.
Undamaged == file.kind = "present" /\ file.damage = "none"

\* The bytes one entry takes: nameLen, name, address type, address.
EntrySize(name, ip) == 4 + Len(as_bytes(name)) + 1 + (IF is_ipv4(ip) THEN 4 ELSE 16)

\* The number of bytes before the i-th entry of the buffer as written.
RECURSIVE EntryStart(_)
EntryStart(i) ==
    IF i = 1 THEN HEADER_LEN
    ELSE EntryStart(i - 1)
         + EntrySize(file.order[i - 1], persistent_state.ip_addresses[file.order[i - 1]])

EntryCount == Len(file.order)

\* C12 as stated: from_reader on the bytes written by write_to succeeds and
\* yields the state that was written, for every map, the one with the empty
\* name included.
C12_RoundTrip ==
    (pc = "read" /\ Undamaged) =>
        /\ read_result.ok
        /\ read_result.state = persistent_state

\* The first eight bytes of the buffer, or fewer, are not the magic.
BadMagic ==
    SubSeq(file.bytes, 1, IF Len(file.bytes) < 8 THEN Len(file.bytes) ELSE 8) # MAGIC

\* C13: from_reader on an input of any length whose first eight bytes are
\* not "dynners\0" returns an error and no state.
C13_BadMagicIsError ==
    (pc = "read" /\ BadMagic) =>
        /\ ~read_result.ok
        /\ read_result.state = Unloaded
        /\ read_result.err = (IF Len(file.bytes) < 8 THEN "UnexpectedEof" ELSE "InvalidInput")

\* A whole file in which one byte of the magic after the first was
\* replaced has been rejected.
C13_Witness ==
    /\ pc = "read" /\ file.damage = "flip" /\ file.at \in 2..8
    /\ Len(file.bytes) > HEADER_LEN
    /\ read_result.err = "InvalidInput"

\* The version field of a buffer that has one, behind a good magic.
HasVersion == ~BadMagic /\ Len(file.bytes) >= 12
FileVersion == u32_from_le_bytes(SubSeq(file.bytes, 9, 12))

InsideEntry(k) == \E i \in 1..EntryCount : EntryStart(i) < k /\ k < EntryStart(i + 1)

\* C15 as stated: from_reader returns an error for every encoded state (with
\* non-empty names) cut off strictly inside an entry, the name length field
\* included.
C15_CutInsideEntryIsError ==
    (/\ pc = "read" /\ file.damage = "cut"
     /\ "" \notin DOMAIN persistent_state.ip_addresses
     /\ InsideEntry(file.at))
    => ~read_result.ok

\* The header of the buffer as written holds the four fields of the state.
HeaderLayout ==
    /\ SubSeq(file.bytes, 1, 8) = MAGIC
    /\ from_le(SubSeq(file.bytes, 9, 12)) = persistent_state.version
    /\ from_le(SubSeq(file.bytes, 13, 20)) = persistent_state.update_timestamp
    /\ SubSeq(file.bytes, 21, 24) = u32_to_le_bytes(persistent_state.config_hash[2])
    /\ SubSeq(file.bytes, 25, 28) = u32_to_le_bytes(persistent_state.config_hash[1])

\* One entry per element of the map follows the header.
EntriesLayout ==
    /\ Range(file.order) = DOMAIN persistent_state.ip_addresses
    /\ EntryCount = Cardinality(DOMAIN persistent_state.ip_addresses)
    /\ \A i \in 1..EntryCount :
          LET at == EntryStart(i)
              name == as_bytes(file.order[i])
              ip == persistent_state.ip_addresses[file.order[i]]
          IN  /\ from_le(SubSeq(file.bytes, at + 1, at + 4)) = Len(name)
              /\ SubSeq(file.bytes, at + 5, at + 4 + Len(name)) = name
              /\ file.bytes[at + 5 + Len(name)] = (IF is_ipv4(ip) THEN 0 ELSE 1)
              /\ file.bytes[at + 6 + Len(name)] = ip.a

\* C18 as stated: the entries are followed by a terminating zero-length
\* name.
C18_LayoutWithTerminator ==
    (pc = "written" /\ Undamaged) =>
        /\ HeaderLayout
        /\ EntriesLayout
        /\ Len(file.bytes) = EntryStart(EntryCount + 1) + 4
        /\ SubSeq(file.bytes, Len(file.bytes) - 3, Len(file.bytes)) = <<0, 0, 0, 0>>

\* C18 amended: the stream ends with the last entry; nothing is written
\* after it.
C18_LayoutWithoutTerminator ==
    (pc = "written" /\ Undamaged) =>
        /\ HeaderLayout
        /\ EntriesLayout
        /\ Len(file.bytes) = EntryStart(EntryCount + 1)

\* A state with three entries of both families has been written: the
\* stream ends with the 253 of the IPv6 address of the last entry.
C18_Witness ==
    /\ pc = "written" /\ Undamaged
    /\ EntryCount = 3 /\ file.order[3] = "a"
    /\ Len(file.bytes) = HEADER_LEN + 12 + 22 + 9
    /\ file.bytes[Len(file.bytes)] = 253

\* ------------------------------------------------- properties of startup

\* main returns before the loop for a reason found in the configuration.
ConfigRejected ==
    \/ DOMAIN config.ip = {}
    \/ \E n \in DOMAIN config.ip : ~config.ip[n].valid
    \/ \E t \in DOMAIN config.ddns : \E d \in Deps(t) : d \notin DOMAIN config.ip

\* The state file could not be opened or from_reader returned an error.
LoadFailed == pc # "read_state" /\ (file.kind = "absent" \/ ~read_result.ok)

\* C16: after a failed load startup goes on with a fresh state (version 1,
\* hash of the configuration text, empty map), no IP is seeded, and main
\* returns before the loop only when the configuration is rejected.
C16_LoadFailureFresh ==
    LoadFailed =>
        /\ pc \in {"validate", "collect_ips", "verify"} =>
              /\ persistent_state.version = STATE_VERSION
              /\ persistent_state.config_hash = config_hash
              /\ (pc = "validate" => config_hash = hash_bytes(config.text))
              /\ persistent_state.ip_addresses = EmptyMap
        /\ \A n \in DOMAIN seeded : seeded[n] = None
        /\ \A n \in DOMAIN ips : pc = "verify" => ips[n] = DynamicIp_from_config
        /\ pc = "exited" => ConfigRejected

\* The loop was entered after from_reader had rejected the file.
C16_Witness ==
    /\ pc = "loop" /\ file.kind = "present" /\ ~read_result.ok
    /\ \A n \in DOMAIN ips : seeded[n] = None

\* C17: validate_against leaves the state with the hash of the text; with
\* equal hashes it returns true and changes nothing, otherwise it returns
\* false and the map is empty; startup goes on in both cases, and no IP is
\* seeded from a file with another hash.
C17_Validate ==
    /\ [](pc = "validate" =>
            LET same == persistent_state.config_hash = hash_bytes(config.text)
                r == validate_against(persistent_state, config.text, Now)
            IN  /\ r.ret = same
                /\ r.self.config_hash = hash_bytes(config.text)
                /\ config_hash = hash_bytes(config.text))
    /\ [](pc \in {"collect_ips", "verify"} => persistent_state.config_hash = config_hash)
    /\ []((pc # "read_state" /\ read_result.ok
            /\ read_result.state.config_hash # config_hash)
          => \A n \in DOMAIN seeded : seeded[n] = None)
    /\ [][pc = "validate" =>
            /\ pc' = "collect_ips"
            /\ IF persistent_state.config_hash = hash_bytes(config.text)
               THEN persistent_state' = persistent_state
               ELSE persistent_state'.ip_addresses = EmptyMap]_vars

\* The loop was entered with no IP seeded after a file with another hash,
\* holding an address for a configured name, had been read.
C17_Witness ==
    /\ pc = "loop" /\ read_result.ok
    /\ read_result.state.config_hash # config_hash
    /\ \E n \in DOMAIN ips : n \in DOMAIN read_result.state.ip_addresses
    /\ \A n \in DOMAIN ips : seeded[n] = None

\* C19: without a polling interval (update_rate 0, read as None) main runs
\* one cycle and terminates; with an interval it sleeps after each cycle
\* and starts another one, and never terminates.
C19_FireOnceOrForever ==
    /\ [](parse_number_into_optional_nonzero(0) = None)
    /\ [](config.update_rate = None => cycle <= 1)
    /\ [](pc = "done" =>
            /\ config.update_rate = None /\ cycle = 1
            /\ refreshed = DOMAIN ips /\ evaluated = DOMAIN services)
    /\ [](IsSome(config.update_rate) => pc # "done")
    /\ [][(pc = "sleep" /\ IsSome(config.update_rate)) =>
            (pc' = "loop" /\ refreshed' = {} /\ evaluated' = {})]_vars
    /\ ((pc = "loop" /\ config.update_rate = None) ~> pc = "done")
    /\ ((pc = "loop" /\ IsSome(config.update_rate)) ~> pc = "sleep")
    /\ ((pc = "sleep" /\ IsSome(config.update_rate)) ~> (pc = "loop" /\ refreshed = {}))

\* A run without polling interval has terminated after its one cycle, in
\* which an address was persisted.
C19_Witness ==
    /\ pc = "done" /\ cycle = 1 /\ config.update_rate = None
    /\ persisted.rebuilt

UnknownDep ==
    \E t \in DOMAIN config.ddns : \E d \in Deps(t) : d \notin DOMAIN config.ip

\* C20: with no IP configured, or a dependency that is not a configured
\* IP, main returns before the first cycle: no IP is refreshed, no
\* update_record call is made and nothing is written.
C20_ExitBeforeLoop ==
    /\ []((DOMAIN config.ip = {} \/ UnknownDep) =>
            /\ pc \in {"read_state", "validate", "collect_ips", "verify", "exited"}
            /\ cycle = 0
            /\ ever_resolved = {} /\ refreshed = {} /\ new_ip = NoEntries
            /\ calls = NoEntries /\ last_call = NoCall
            /\ persisted = NotPersisted
            /\ \A n \in DOMAIN ips : ips[n] = collect_ip(n, persistent_state))
    /\ [][/\ (pc = "collect_ips" /\ DOMAIN config.ip = {}) => pc' = "exited"
          /\ (pc = "verify" /\ UnknownDep) => pc' = "exited"
          /\ pc # "exited"]_vars

\* main has returned because a target names an IP that is not configured,
\* after the configured IP had been constructed.
C20_Witness ==
    /\ pc = "exited" /\ UnknownDep
    /\ DOMAIN ips # {} /\ refreshed = {} /\ cycle = 0

\* ---------------------------------------- properties of the service loop

\* update_record returned an Err (TransportError, DynDns, Suspended, ...).
IsErr(ret) == ret.tag \notin {"Ok", "panic", "none"}

\* The step is the evaluation of target t, which was called.
CallStep(t) == t \notin evaluated /\ t \in evaluated' /\ calls'[t] > calls[t]

\* C21: an error returned by update_record does not abort the process: the
\* loop goes on with the other targets, the cycle reaches its persistence
\* step and the sleep or the end, and the next cycle starts.
C21_ErrorsNonFatal ==
    /\ [][\A t \in DOMAIN calls :
            (CallStep(t) /\ IsErr(last_call'.ret)) =>
                /\ pc' = "loop"
                /\ is_ip_updated'
                /\ ips' = ips]_vars
    /\ [](pc \in {"sleep", "done"} =>
            /\ evaluated = DOMAIN services
            /\ is_ip_updated => persisted.rebuilt)
    /\ ((pc = "loop" /\ IsErr(last_call.ret)) ~> pc = "sleep")
    /\ ((pc = "sleep" /\ IsErr(last_call.ret))
          ~> (pc = "done" \/ (pc = "loop" /\ refreshed = {})))

\* A cycle has reached its end with the state persisted: one target is
\* suspended indefinitely after an error and was called in this cycle, and
\* another target was called after it.
C21_Witness ==
    /\ pc = "sleep" /\ persisted.rebuilt
    /\ \E t, u \in DOMAIN calls :
          /\ t # u
          /\ services[t].suspended = Indefinite /\ calls[t] = 1
          /\ last_call.target = u /\ calls[u] = 1

\* The dependencies of target t that have a cached address, in the order of
\* the dependency list.
Resolved(t) == SelectSeq(config.ddns[t].ip, LAMBDA d : ips[d].address # None)

\* A call was made in this cycle; the IPs are as they were at the call.
Called == InLoop /\ last_call.target # ""

\* C22: the list passed to update_record is the cached addresses of the
\* dependencies that have one, dirty or not, in the order of the dependency
\* list; dependencies without address are left out.
C22_GatheredAddresses ==
    Called =>
        LET r == Resolved(last_call.target)
        IN  /\ Len(last_call.ips) = Len(r)
            /\ \A i \in 1..Len(r) : last_call.ips[i] = Unwrap(ips[r[i]].address)

\* A target was called with the addresses of two dependencies, the first
\* of which is not dirty.
C22_Witness ==
    /\ Called /\ Len(last_call.ips) = 2
    /\ ~ips[config.ddns[last_call.target].ip[1]].dirty
    /\ ips[config.ddns[last_call.target].ip[2]].dirty

\* The positions of the addresses of family v in a list.
OfFamily(list, v) == {i \in 1..Len(list) : list[i].v = v}
\* The first address of family v in a list, as a list of at most one.
FirstOf(list, v) ==
    IF OfFamily(list, v) = {} THEN <<>>
    ELSE <<list[CHOOSE i \in OfFamily(list, v) : \A j \in OfFamily(list, v) : i <= j]>>

\* C23 as stated: every list passed to update_record holds at most one
\* IPv4 and at most one IPv6 address, and every Ok result at most two
\* addresses.
C23_AtMostOnePerFamily ==
    Called =>
        /\ Cardinality(OfFamily(last_call.ips, V4)) <= 1
        /\ Cardinality(OfFamily(last_call.ips, V6)) <= 1
        /\ last_call.ret.tag = "Ok" => Len(last_call.ret.updated) <= FIXEDVEC_N

\* C23 amended: the list holds one address for each dependency that has
\* one, so several of one family when the dependencies are; the request of
\* the service carries the first IPv4 and the first IPv6 address of the
\* list and no other, and every Ok result holds at most two addresses,
\* each of them one of those two.
C23_FirstOfEachFamily ==
    Called =>
        /\ Len(last_call.ips) = Len(Resolved(last_call.target))
        /\ IsSome(last_call.request) =>
              Unwrap(last_call.request)
                 = FirstOf(last_call.ips, V4) \o FirstOf(last_call.ips, V6)
        /\ last_call.ret.tag = "Ok" =>
              /\ Len(last_call.ret.updated) <= FIXEDVEC_N
              /\ Range(last_call.ret.updated)
                    \subseteq Range(FirstOf(last_call.ips, V4) \o FirstOf(last_call.ips, V6))

\* A target whose two dependencies are IPv4 was called with two different
\* IPv4 addresses and its request carried the first one only.
C23_Witness ==
    /\ Called /\ Len(last_call.ips) = 2
    /\ last_call.ips[1].v = V4 /\ last_call.ips[2].v = V4
    /\ last_call.ips[1] # last_call.ips[2]
    /\ last_call.request = Some(<<last_call.ips[1]>>)
    /\ last_call.ret.tag = "Ok"

\* The text after the "good" prefix of the last answer, and the addresses
\* its first two comma separated fields parse to.
GoodRest == SubSeq(Unwrap(last_call.resp.body), Len(S_good) + 1,
                   Len(Unwrap(last_call.resp.body)))
Confirmed(n) ==
    IF Len(split(GoodRest, ",")) >= n THEN parse_IpAddr(trim(split(GoodRest, ",")[n]))
    ELSE None
\* The last call issued a request and the body of the answer was read.
Answered ==
    /\ pc = "engine"
    /\ IsSome(last_call.request)
    /\ last_call.resp.kind \in {"Ok", "Status"}
    /\ IsSome(last_call.resp.body)
AnsweredGood == Answered /\ StartsWith(Unwrap(last_call.resp.body), S_good)
AnsweredNochg == Answered /\ StartsWith(Unwrap(last_call.resp.body), S_nochg)

\* C24: an answer starting with "good" is a success whose result is the
\* addresses parsed from the first two comma separated fields, or, when
\* neither parses, the first IPv4 and the first IPv6 address submitted; an
\* answer starting with "nochg" is a success with an empty result; neither
\* changes the suspension of the instance.
C24_GoodAndNochg ==
    /\ [](AnsweredGood =>
            /\ last_call.ret.tag = "Ok"
            /\ last_call.ret.updated =
                 IF Confirmed(1) = None /\ Confirmed(2) = None
                 THEN FirstOf(last_call.ips, V4) \o FirstOf(last_call.ips, V6)
                 ELSE Confirmed(1) \o Confirmed(2))
    /\ [](AnsweredNochg => last_call.ret = RetOk(<<>>))
    /\ [][(AnsweredGood' \/ AnsweredNochg') =>
            services'["s1"].suspended = services["s1"].suspended]_vars

\* A "good" answer whose second field alone parses was received for a list
\* of two addresses, and the result is that one address.
C24_Witness ==
    /\ AnsweredGood
    /\ Confirmed(1) = None
    /\ IsSome(Confirmed(2))
    /\ Len(last_call.ips) = 2
    /\ last_call.ret.updated = Confirmed(2)

\* ------------------------------------------------- properties of FixedVec

\* C30: the length of a FixedVec never exceeds N; a push into a vector that
\* is not full appends the item and returns None, a push into a full vector
\* returns the item and changes nothing; get(i) is Some exactly for
\* i < length and yields the i-th pushed item; as_slice has length elements
\* in push order.
C30_FixedVec ==
    /\ [](pc = "fixedvec" =>
            /\ vec.length <= FIXEDVEC_N
            /\ Len(FixedVec_as_slice(vec)) = vec.length
            /\ vec_op.op = "get" =>
                 /\ IsSome(vec_op.ret) <=> vec_op.arg < vec.length
                 /\ IsSome(vec_op.ret) =>
                      Unwrap(vec_op.ret) = FixedVec_as_slice(vec)[vec_op.arg + 1])
    /\ [][(pc = "fixedvec" /\ vec_op'.op = "push" /\ vec_op' # vec_op) =>
            IF vec.length < FIXEDVEC_N
            THEN /\ vec_op'.ret = None
                 /\ FixedVec_as_slice(vec') = Append(FixedVec_as_slice(vec), vec_op'.arg)
            ELSE /\ vec_op'.ret = Some(vec_op'.arg)
                 /\ vec' = vec]_vars

\* A push into a full vector has returned the item, which differs from the
\* items kept.
C30_Witness ==
    /\ pc = "fixedvec"
    /\ vec.length = FIXEDVEC_N
    /\ vec_op.op = "push"
    /\ vec_op.ret = Some(vec_op.arg)
    /\ vec_op.arg \notin Range(FixedVec_as_slice(vec))
    /\ FixedVec_as_slice(vec)[1] # FixedVec_as_slice(vec)[2]

\* -------------------------------------------------- properties of netmask

\* The text before and after the first slash of the string parsed.
LeftSide == SubSeq(network.input, 1, find_char(network.input, "/") - 1)
RightSide == SubSeq(network.input, find_char(network.input, "/") + 1, Len(network.input))
HasSlash == find_char(network.input, "/") > 0
Parsed == pc = "netmask" /\ network # Idle /\ network.op = "from_str"
Accepted == Parsed /\ network.result.ok
Asked == pc = "netmask" /\ net_op # Idle /\ net_op.op = "in_range"

\* C27: the matcher parsed from an accepted addr/prefix or addr/mask string
\* has the address addr, and its in_range is true for addr itself, whatever
\* the mask is.
C27_OwnAddressInRange ==
    Accepted =>
        /\ HasSlash
        /\ \/ Some(network.result.value.address) = parse_Ipv4Addr(LeftSide)
           \/ Some(network.result.value.address) = parse_Ipv6Addr(LeftSide)
        /\ (Asked /\ net_op.addr = network.result.value.address) => net_op.ret

\* The string 198.51.100.2/255.255.0.255, whose mask is not contiguous, was
\* accepted and in_range was asked about 198.51.100.2.
C27_Witness ==
    /\ Accepted
    /\ Asked
    /\ net_op.addr = <<198, 51, 100, 2>>
    /\ network.result.value = Network(<<198, 51, 100, 2>>, <<255, 255, 0, 255>>)
    /\ net_op.ret

\* The first p bits of an address.
TopBits(addr, p) == SubSeq(from_be_bytes(addr), 1, p)
Prefixed == pc = "netmask" /\ network # Idle /\ network.op = "from_prefix"

\* C28: from_prefix(b, p).in_range(c) is true exactly when the p most
\* significant bits of c are those of b: every c for p = 0, only b for
\* p = W.
C28_PrefixMatch ==
    (Prefixed /\ Asked) =>
        /\ net_op.ret <=> TopBits(net_op.addr, network.prefix) = TopBits(network.input, network.prefix)
        /\ network.prefix = 0 => net_op.ret
        /\ network.prefix = 8 * Len(network.input) => (net_op.ret <=> net_op.addr = network.input)

\* from_prefix(198.51.100.2, 24) was asked about 198.51.100.98, which is in
\* range.
C28_Witness ==
    /\ Prefixed
    /\ Asked
    /\ network.input = <<198, 51, 100, 2>>
    /\ network.prefix = 24
    /\ net_op.addr = <<198, 51, 100, 98>>
    /\ net_op.ret

\* The right side is a decimal integer above the width of the family.
IsDecimal(s) == Len(s) > 0 /\ \A i \in 1..Len(s) : to_digit(s[i], 10) >= 0
RECURSIVE Decimal(_, _)
Decimal(s, acc) == IF s = <<>> THEN acc ELSE Decimal(Tail(s), acc * 10 + to_digit(Head(s), 10))
ValidLeft(w) ==
    IF w = W4 THEN IsSome(parse_Ipv4Addr(LeftSide)) ELSE IsSome(parse_Ipv6Addr(LeftSide))
\* The family of the parser is the one whose inputs the string belongs to.
ParsedAs(w) ==
    /\ Parsed
    /\ IF w = W4 THEN network.result = NetworkV4_from_str(network.input)
                 ELSE network.result = NetworkV6_from_str(network.input)

\* C29: addr/N with a valid addr and a decimal N above the width of the
\* family fails with MaskTooLarge, also for N >= 256; a string without slash
\* fails with MaskUnspecified; an invalid left side fails with
\* InvalidAddress whatever the right side is.
C29_ParseErrors ==
    \A w \in {W4, W6} :
        ParsedAs(w) =>
            /\ ~HasSlash => network.result = NetErr("MaskUnspecified")
            /\ (HasSlash /\ ~ValidLeft(w)) => network.result = NetErr("InvalidAddress")
            /\ (HasSlash /\ ValidLeft(w) /\ IsDecimal(RightSide) /\ Decimal(RightSide, 0) > w) =>
                  network.result = NetErr("MaskTooLarge")

\* ------------------------------- properties of Cloudflare and Linode

RestCalled == pc = "rest" /\ rest_op # Idle
Listings(call) == {i \in 1..Len(call.reqs) : IsListing(call.reqs[i])}
\* The PUT requests of a call that carried the address ip.
PutsOf(call, ip) ==
    {i \in 1..Len(call.reqs) : call.reqs[i].req = "put" /\ call.reqs[i].ip = Some(ip)}

\* C25 as stated: an address is in the Ok result of a Cloudflare or Linode
\* update_record only if the call has PUT it to a cached record of its
\* kind.
C25_OnlyPutAddresses ==
    (RestCalled /\ rest_op.ret.tag = "Ok") =>
        \A ip \in Range(rest_op.ret.updated) :
            \E i \in PutsOf(rest_op, ip) :
                \E k \in 1..Len(rest.cached_records) :
                    /\ rest.cached_records[k].id = rest_op.reqs[i].id
                    /\ rest.cached_records[k].kind
                         = (IF is_ipv4(ip) THEN RecordKind_A ELSE RecordKind_Aaaa)

\* C26 as stated: after a call whose discovery completed without error, no
\* later call issues a zone or record list request.
C26_NeverListsAgain ==
    [][(pc = "rest" /\ discovered) => Listings(rest_op') = {}]_vars

\* C26: a call that starts with a cached record issues no zone or record
\* list request, and the cache is not changed by it; a call that starts
\* with an empty cache, also after a discovery that found no matching
\* record, starts with the zone list request.
C26_ListsWhileCacheEmpty ==
    [][pc = "rest" =>
         IF rest.cached_records # <<>>
         THEN Listings(rest_op') = {} /\ rest'.cached_records = rest.cached_records
         ELSE Len(rest_op'.reqs) >= 1 /\ rest_op'.reqs[1] = ReqZones]_vars

\* A discovery has completed, records are cached, and the latest call has
\* PUT an address without listing anything.
C26_Witness ==
    /\ RestCalled
    /\ discovered
    /\ rest.cached_records # <<>>
    /\ Listings(rest_op) = {}
    /\ \E i \in 1..Len(rest_op.reqs) : rest_op.reqs[i].req = "put"

\* ------------------------------------------ properties of the dirty bit

\* The refresh loop of the cycle has ended and the cycle has not.
AtEvaluation == pc = "loop" /\ refreshed = DOMAIN ips

\* C31 as stated: an IP that is dirty when the targets are evaluated was
\* resolved successfully in the refresh of this cycle, to an address other
\* than the one it had; the bit does not stay true through a cycle whose
\* refresh fails.
C31_DirtyOnlyFromThisCycle ==
    AtEvaluation =>
        \A n \in DOMAIN ips :
            is_dirty(ips[n]) => (update_ret[n] = "Ok" /\ new_ip[n].ip = address(ips[n]))

\* The step is the evaluation of a target, or the persistence step.
EvaluationStep == pc = "loop" /\ evaluated' # evaluated
PersistStep == pc = "loop" /\ pc' = "sleep"

\* C32: the evaluation of a target, with or without a provider call, and
\* the persistence step leave every DynamicIp as it is; so at the end of a
\* cycle every target with a dirty dependency has been called, and each IP
\* has what its refresh of this cycle left.
C32_EvaluationKeepsIps ==
    /\ [][(EvaluationStep \/ PersistStep) => ips' = ips]_vars
    /\ [](pc = "sleep" =>
            \A t \in DOMAIN calls : OwnDirty(t) => calls[t] = 1)

\* Both targets of the shared configuration were called in one cycle, the
\* later one successfully, and their common dependency is still dirty.
C32_Witness ==
    /\ pc = "sleep"
    /\ config.text = CfgShared.text
    /\ calls["s1"] = 1
    /\ calls["s2"] = 1
    /\ is_dirty(ips["a"])
    /\ last_call.ret.tag = "Ok"

\* C33: a dirty DynamicIp has a cached address; so every list passed to
\* update_record holds an address, the shared engine finds an IPv4 or an
\* IPv6 address to submit, and its unreachable!() is not reached.
C33_DirtyHasAddress ==
    /\ pc # "panicked"
    /\ \A n \in DOMAIN ips : is_dirty(ips[n]) => IsSome(address(ips[n]))
    /\ Called =>
         /\ last_call.ips # <<>>
         /\ last_call.ret.tag # "panic"
         /\ IsSome(find_ipv4(last_call.ips)) \/ IsSome(find_ipv6(last_call.ips))

\* A target with two dependencies was called with one address: the other
\* dependency has never been resolved and has none.
C33_Witness ==
    /\ Called
    /\ last_call.target = "s1"
    /\ Len(config.ddns["s1"].ip) = 2
    /\ Len(last_call.ips) = 1
    /\ \E n \in DOMAIN ips : address(ips[n]) = None

\* The refresh of this cycle resolved every dependency of t to the address
\* it had before.
AllDepsSame(t) ==
    \A n \in Deps(t) : update_ret[n] = "Ok" /\ ~is_dirty(ips[n])
\* The latest call of the service of t failed or was refused: the engine
\* is left under suspension.
LeftSuspended(t) == services[t].kind = "dyndns" /\ services[t].suspended # Cycles(0)

\* C34: a refresh that resolves an IP to its cached address leaves it clean,
\* and a clean IP becomes dirty only by resolving to another address; a
\* target all of whose dependencies resolved to their cached addresses is
\* not called in that cycle and its service is left as the previous cycles
\* left it, also when its latest call failed.
C34_NoRetry ==
    /\ [][\A n \in DOMAIN ips :
            (pc = "loop" /\ UpdateStep(n)) =>
               /\ (new_ip'[n].ok /\ new_ip'[n].ip = address(ips[n])) => ~is_dirty(ips'[n])
               /\ (~is_dirty(ips[n]) /\ is_dirty(ips'[n])) =>
                     (new_ip'[n].ok /\ new_ip'[n].ip # address(ips[n]))]_vars
    /\ [][\A t \in DOMAIN services :
            (pc = "loop" /\ t \notin evaluated /\ t \in evaluated' /\ AllDepsSame(t)) =>
               (calls'[t] = 0 /\ services'[t] = services[t])]_vars
    /\ [](pc = "sleep" => \A t \in DOMAIN calls : AllDepsSame(t) => calls[t] = 0)

\* In a later cycle a target whose engine was left under indefinite
\* suspension by a failed call was evaluated and not called: its
\* dependencies resolved to the addresses they had.
C34_Witness ==
    /\ pc = "sleep"
    /\ cycle = 2
    /\ LeftSuspended("s1")
    /\ services["s1"].suspended = Indefinite
    /\ AllDepsSame("s1")
    /\ calls["s1"] = 0

\* C35: the suspension of a service changes only in a step that calls
\* update_record on that service; the evaluation of a target none of whose
\* dependencies is dirty, the refresh, the persistence step and the sleep
\* leave it as it is, and so does a call on another service.
C35_SuspensionChangesInOwnCall ==
    /\ [][\A t \in DOMAIN services :
            (InLoop /\ t \in DOMAIN services' /\ services'[t] # services[t]) =>
               /\ t \notin evaluated /\ t \in evaluated'
               /\ calls'[t] = calls[t] + 1
               /\ last_call'.target = t]_vars
    /\ [][\A t \in DOMAIN services :
            (pc = "loop" /\ t \notin evaluated /\ t \in evaluated' /\ ~OwnDirty(t)) =>
               (calls'[t] = 0 /\ services'[t] = services[t])]_vars
    /\ [][(pc = "sleep" /\ pc' = "loop") => services' = services]_vars

\* In a later cycle the target s1, which is under a cooldown of one cycle, was
\* not called and still has its cooldown, while the other target was called.
C35_Witness ==
    /\ pc = "sleep"
    /\ cycle = 2
    /\ services["s1"].kind = "dyndns"
    /\ services["s1"].suspended = Cycles(1)
    /\ calls["s1"] = 0
    /\ calls["s2"] = 1
    /\ services["s2"].kind = "dyndns"

\* ------------------------------------------- properties of the cooldown in time

\* C36: with a polling interval of r >= 1 seconds and cycles that last at
\* least r seconds each, a request issued j cycles after the cycle of an
\* outage answer has j >= floor(1800 / r) + 1, so that at least j * r, more
\* than 1800, seconds lie between the two; this covers r > 1800, where the
\* counter is Cycles(0) and the request of the very next cycle is 2000
\* seconds later.
C36_RequestAfterCooldown ==
    [][(pc = "cooldown" /\ cycle <= MaxSince /\ IsSome(last_call'.request)) =>
          /\ cycle + 1 >= Floor(config.update_rate) + 1
          /\ (cycle + 1) * Unwrap(config.update_rate) > COOLDOWN_SECS
          /\ services["s1"].suspended = Cycles(0)]_vars

C36_Witness ==
    /\ pc = "cooldown" /\ config.update_rate = Some(700)
    /\ cycle = 3 /\ IsSome(last_call.request) /\ last_call.ret.tag = "Ok"

\* ------------------------------------------- properties of error answers

\* The body starts with one of the four prefixes the engine tells apart.
KnownPrefix(body) ==
    \/ StartsWith(body, S_good) \/ StartsWith(body, S_nochg)
    \/ StartsWith(body, S_911) \/ StartsWith(body, S_dnserr)

\* C37: an answer with an error status is classified by the prefix of its
\* body as the same body under a successful status is: the call returns the
\* same result and leaves the same suspension, which is Indefinite when the
\* body starts with none of good, nochg, 911 and dnserr, the empty body
\* included. A transport error returns TransportError and leaves the
\* suspension unchanged.
C37_StatusErrorByPrefix ==
    /\ [][(pc = "engine" /\ IsSome(last_call'.request) /\ last_call'.resp.kind = "Status"
             /\ IsSome(last_call'.resp.body)) =>
            LET body == Unwrap(last_call'.resp.body)
                o == update_record(services["s1"], last_call'.ips,
                                   Response("Ok", Some(body)), config.update_rate)
            IN  /\ services'["s1"] = o.self
                /\ last_call'.ret = o.ret
                /\ ~KnownPrefix(body) => services'["s1"].suspended = Indefinite]_vars
    /\ [][(pc = "engine" /\ IsSome(last_call'.request)
             /\ last_call'.resp.kind = "Transport") =>
            /\ last_call'.ret = RetErr("TransportError")
            /\ services' = services]_vars

C37_Witness ==
    /\ pc = "engine" /\ IsSome(last_call.request)
    /\ last_call.resp = Response("Status", Some(<<>>))
    /\ services["s1"].suspended = Indefinite
    /\ config.update_rate = Some(60)

\* ------------------------------------------- properties of the written state

\* The IPs that have a cached address.
Cached == {n \in DOMAIN ips : IsSome(ips[n].address)}

\* C38: the state every cycle builds and hands to write_to has format
\* version 1, the fingerprint of the configuration text, and one entry for
\* each IP that has a cached address, holding that address, and no other
\* entry, whatever the state file found at startup held.
C38_WrittenState ==
    /\ [](pc = "read_state" => config_hash = hash_bytes(config.text))
    /\ [][config_hash' = config_hash /\ config' = config]_vars
    /\ [][(pc = "loop" /\ pc' = "sleep" /\ persisted'.rebuilt) =>
            /\ persistent_state'.version = STATE_VERSION
            /\ persistent_state'.version = 1
            /\ persistent_state'.config_hash = config_hash
            /\ DOMAIN persistent_state'.ip_addresses = Cached
            /\ \A n \in Cached :
                  persistent_state'.ip_addresses[n] = Unwrap(ips[n].address)]_vars

\* A state was written in which b, seeded from a file and never resolved in
\* this run, is kept, and a is written with an address other than the one
\* the file held.
C38_Witness ==
    /\ pc = "sleep" /\ persisted.rebuilt /\ persisted.write = "ok"
    /\ DOMAIN ips = {"a", "b"}
    /\ IsSome(seeded["a"]) /\ IsSome(seeded["b"])
    /\ persistent_state.ip_addresses["a"] # Unwrap(seeded["a"])
    /\ "b" \notin ever_resolved /\ ~ips["b"].dirty
    /\ persistent_state.ip_addresses["b"] = Unwrap(seeded["b"])

\* ------------------------------------------- properties of a failed discovery

\* Records are cached and no discovery has run to its end: the cache was
\* left by a discovery that failed after the records of an earlier zone
\* were pushed.
PartlyDiscovered == pc = "rest" /\ rest.cached_records # <<>> /\ ~discovered

\* C39: the records a failed discovery had pushed stay cached; every later
\* call lists nothing and leaves the cache as it is, so the record of the
\* zone whose listing failed is never cached and never PUT.
C39_PartialDiscoveryStays ==
    /\ [](PartlyDiscovered => RecA2 \notin Range(rest.cached_records))
    /\ [][PartlyDiscovered =>
            /\ rest'.cached_records = rest.cached_records
            /\ Listings(rest_op') = {}
            /\ ~discovered'
            /\ \A i \in 1..Len(rest_op'.reqs) :
                  rest_op'.reqs[i].req = "put" /\ rest_op'.reqs[i].zone = 1]_vars

\* After a discovery that failed at the second zone, a later call has PUT
\* the address to the record of the first zone, listed nothing and
\* returned Ok.
C39_Witness ==
    /\ PartlyDiscovered
    /\ rest.cached_records = <<RecA>>
    /\ rest_op.ret.tag = "Ok"
    /\ Listings(rest_op) = {}
    /\ PutsOf(rest_op, IpAddr(V4, 1)) # {}

\* ------------------------------------------- properties of the No-IP provider

\* The answer has a successful status, its body was read and starts with
\* neither good nor nochg.
OtherBody(resp) ==
    /\ resp.kind = "Ok" /\ resp.code < 400 /\ IsSome(resp.body)
    /\ ~StartsWith(Unwrap(resp.body), S_good)
    /\ ~StartsWith(Unwrap(resp.body), S_nochg)

\* C40: a No-IP call whose answer has a successful status and a body that
\* starts with neither good nor nochg returns Ok with every address it
\* submitted in myip; no call changes the instance, and every call issues
\* its request, whatever the calls before it returned.
C40_NoIpOtherBodyIsOk ==
    [][pc = "noip" =>
         /\ services' = services
         /\ IsSome(last_call'.request)
         /\ OtherBody(last_call'.resp) =>
              /\ last_call'.ret.tag = "Ok"
              /\ last_call'.ret.updated = Unwrap(last_call'.request)
              /\ last_call'.ret.updated # <<>>]_vars

\* Two addresses were submitted, the server answered badauth under a
\* successful status, and the call returned Ok with both.
C40_Witness ==
    /\ pc = "noip"
    /\ last_call.ips = <<IpAddr(V6, 2), IpAddr(V4, 1)>>
    /\ last_call.resp = NoIpResponse("Ok", 200, Some(S_badauth))
    /\ last_call.ret = RetOk(<<IpAddr(V4, 1), IpAddr(V6, 2)>>)

====
